---- MODULE Spec2Model ----
(***************************************************************************)
(* GestureMapper (src/src/lib/gestures/GestureMapper.ts) with the filters  *)
(* it builds (filters.ts) and the landmark functions it calls              *)
(* (landmarkUtils.ts), as a state machine: one action per public method.   *)
(*                                                                         *)
(* Numbers are exact rationals [n, d] in lowest terms with d > 0; the      *)
(* three non-finite values of an IEEE division (0/0, x/0) are the records  *)
(* with d = 0.  Rounding of binary floating point is not modelled.         *)
(***************************************************************************)
EXTENDS Integers, Sequences, FiniteSets, TLC

VARIABLES
    mappings,           \* this.mappings: id -> the stored mapping object (its fields)
    mappingOrder,       \* insertion order of this.mappings (the order `for..of` visits)
    filters,            \* this.filters: id -> filter instance (its fields)
    states,             \* this.states: id -> MappingState
    previousLandmarks,  \* this.previousLandmarks: handedness -> landmark array
    previousTimestamp,  \* this.previousTimestamp
    onParameterChange,  \* TRUE when a callback has been set
    calls,              \* the callback invocations of the latest process() call, in order
    result,             \* the latest method call and how it ended: [op, outcome]
    nframes,            \* number of process() calls so far
    presets,            \* the caller's mapping objects: ref -> the object's fields now
    held,               \* id -> ref, where this.mappings holds the caller's own object
    peer,               \* a second GestureMapper instance of the same caller
    probe               \* a function or filter exercised on its own: the call and its result

vars == <<mappings, mappingOrder, filters, states, previousLandmarks,
          previousTimestamp, onParameterChange, calls, result, nframes,
          presets, held, peer, probe>>

registry == <<mappings, mappingOrder, filters, states>>

---------------------------------------------------------------------------
(* Bounds of the model *)

MaxFrames == 2

\* calls of filter() on a filter that createFilter built
MaxFilterCalls == 2

\* process() calls where the age of the cached landmarks is followed
MaxTimedFrames == 3

\* process() calls followed after a reset()
MaxFreshFrames == 2

\* calls the output callback makes into the orchestrator during one process() call
MaxReentries == 2

\* calls of filter() on a moving-average filter since construction or reset()
MaxInputs == 4

\* calls of filter() on a filter exercised on its own, between two resets
MaxCalls == 30
\* reset() calls on such a filter
MaxResets == 1

---------------------------------------------------------------------------
(* Exact arithmetic *)

Abs(i) == IF i < 0 THEN -i ELSE i

RECURSIVE Gcd(_, _)
Gcd(a, b) == IF b = 0 THEN a ELSE Gcd(b, a % b)

\* the number n/d (d # 0) in lowest terms
Rat(n, d) ==
    LET g == Gcd(Abs(n), Abs(d))
        s == IF d < 0 THEN -1 ELSE 1
    IN  [n |-> s * (n \div g), d |-> Abs(d) \div g]

Int2Rat(i) == [n |-> i, d |-> 1]
Zero == Int2Rat(0)
One == Int2Rat(1)
Half == Rat(1, 2)

NaN == [n |-> 0, d |-> 0]
PosInf == [n |-> 1, d |-> 0]
NegInf == [n |-> -1, d |-> 0]

IsFinite(a) == a.d # 0
IsNaN(a) == a = NaN

Sgn(i) == IF i > 0 THEN 1 ELSE IF i < 0 THEN -1 ELSE 0

\* a + b, a - b, a * b as IEEE does them: NaN propagates, Infinity - Infinity and
\* 0 * Infinity are NaN.  Common factors are divided out before multiplying, to keep the
\* intermediate integers small.
Add(a, b) ==
    IF IsNaN(a) \/ IsNaN(b) THEN NaN
    ELSE IF IsFinite(a) /\ IsFinite(b)
    THEN LET g == Gcd(a.d, b.d)
         IN  Rat(a.n * (b.d \div g) + b.n * (a.d \div g), (a.d \div g) * b.d)
    ELSE IF IsFinite(b) THEN a
    ELSE IF IsFinite(a) THEN b
    ELSE IF a = b THEN a ELSE NaN
Sub(a, b) == Add(a, [n |-> 0 - b.n, d |-> b.d])
Mul(a, b) ==
    IF IsNaN(a) \/ IsNaN(b) THEN NaN
    ELSE IF IsFinite(a) /\ IsFinite(b)
    THEN LET g == Gcd(Abs(a.n), b.d)
             h == Gcd(Abs(b.n), a.d)
         IN  Rat((a.n \div g) * (b.n \div h), (a.d \div h) * (b.d \div g))
    ELSE [n |-> Sgn(a.n) * Sgn(b.n), d |-> 0]

\* a / b as IEEE division: x/0 and Infinity/x are +-Infinity, x/Infinity is 0, 0/0 and
\* Infinity/Infinity are NaN, NaN propagates
Div(a, b) ==
    IF IsNaN(a) \/ IsNaN(b) THEN NaN
    ELSE IF ~IsFinite(a) THEN (IF IsFinite(b) THEN [n |-> a.n * (IF b.n < 0 THEN -1 ELSE 1), d |-> 0]
                               ELSE NaN)
    ELSE IF ~IsFinite(b) THEN Zero
    ELSE IF b.n # 0 THEN Rat(a.n * b.d, a.d * b.n)
    ELSE IF a.n > 0 THEN PosInf
    ELSE IF a.n < 0 THEN NegInf
    ELSE NaN

\* a < b and a <= b; every comparison with NaN is false
Lt(a, b) ==
    /\ ~IsNaN(a) /\ ~IsNaN(b)
    /\ IF IsFinite(a) /\ IsFinite(b) THEN a.n * b.d < b.n * a.d
       ELSE IF IsFinite(a) THEN b = PosInf
       ELSE IF IsFinite(b) THEN a = NegInf
       ELSE a = NegInf /\ b = PosInf
Le(a, b) == ~IsNaN(a) /\ ~IsNaN(b) /\ (a = b \/ Lt(a, b))

\* Math.min, Math.max, Math.abs, Math.sign
MathMin(a, b) == IF IsNaN(a) \/ IsNaN(b) THEN NaN ELSE IF Lt(b, a) THEN b ELSE a
MathMax(a, b) == IF IsNaN(a) \/ IsNaN(b) THEN NaN ELSE IF Lt(a, b) THEN b ELSE a
MathAbs(a) == [n |-> Abs(a.n), d |-> a.d]
MathSign(a) == IF IsNaN(a) THEN NaN ELSE Int2Rat(IF a.n > 0 THEN 1 ELSE IF a.n < 0 THEN -1 ELSE 0)

\* Math.sqrt of a finite value >= 0 whose root is rational (all the roots the model takes)
ISqrt(k) == CHOOSE i \in 0..k : i * i = k
MathSqrt(a) == [n |-> ISqrt(a.n), d |-> ISqrt(a.d)]

\* an optional value: <<>> is null / undefined, <<v>> is v
None == <<>>
Some(v) == <<v>>
OrElse(opt, dflt) == IF opt = None THEN dflt ELSE opt[1]

\* the function f without key k, and f with key k set to v
MapDelete(f, k) == [x \in DOMAIN f \ {k} |-> f[x]]
MapSet(f, k, v) == [x \in DOMAIN f \cup {k} |-> IF x = k THEN v ELSE f[x]]

\* a Map's key order after set(k, ...) and after delete(k)
OrderSet(order, k) == IF \E i \in 1..Len(order) : order[i] = k THEN order ELSE Append(order, k)
OrderDelete(order, k) == SelectSeq(order, LAMBDA x : x # k)

---------------------------------------------------------------------------
(* Landmarks, hands and frames (types/hand.ts) *)

WRIST == 0
THUMB_CMC == 1
THUMB_MCP == 2
THUMB_IP == 3
THUMB_TIP == 4
INDEX_MCP == 5
INDEX_PIP == 6
INDEX_DIP == 7
INDEX_TIP == 8
MIDDLE_MCP == 9
MIDDLE_PIP == 10
MIDDLE_DIP == 11
MIDDLE_TIP == 12
RING_MCP == 13
RING_PIP == 14
RING_DIP == 15
RING_TIP == 16
PINKY_MCP == 17
PINKY_PIP == 18
PINKY_DIP == 19
PINKY_TIP == 20
NumLandmarks == 21

Handednesses == {"Left", "Right"}

Point(x, y, z) == [x |-> x, y |-> y, z |-> z]

\* landmarks[i]: <<>> (undefined) past the end of the array
At(landmarks, i) == IF i + 1 <= Len(landmarks) THEN Some(landmarks[i + 1]) ELSE None

\* a hand of 21 landmarks, given the five the modelled gestures read
MkPose(wrist, thumbTip, indexTip, indexMcp, middleMcp) ==
    [i \in 1..NumLandmarks |->
        CASE i = WRIST + 1      -> wrist
          [] i = THUMB_TIP + 1  -> thumbTip
          [] i = INDEX_TIP + 1  -> indexTip
          [] i = INDEX_MCP + 1  -> indexMcp
          [] i = MIDDLE_MCP + 1 -> middleMcp
          [] OTHER              -> Point(Half, Half, Zero)]

\* wrist at the left edge, thumb and index tips touching, palm towards the camera
PoseA == MkPose(Point(Zero, One, Zero), Point(Half, Half, Zero), Point(Half, Half, Zero),
                Point(Zero, Half, Zero), Point(Half, Zero, Zero))
\* wrist at the right edge and nearer, tips half a frame apart, palm away
PoseB == MkPose(Point(One, Half, Rat(-1, 2)), Point(Zero, Zero, Zero), Point(Half, Zero, Zero),
                Point(One, Zero, Zero), Point(Half, Zero, Zero))
\* the wrist moved to the top left corner
PoseC == MkPose(Point(Zero, Zero, Zero), Point(Zero, Zero, Zero), Point(Half, Zero, Zero),
                Point(One, Zero, Zero), Point(Half, Zero, Zero))
\* an incomplete hand: only the first five landmarks arrived
PoseShort == SubSeq(PoseA, 1, THUMB_TIP + 1)


HandResult(landmarks, handedness) == [landmarks |-> landmarks, handedness |-> handedness]

\* the hand lists of a frame: no hand, a left hand, a right hand, or both in either order
HandLists(left, right) ==
    {<<>>}
    \cup {<<HandResult(p, "Left")>> : p \in left}
    \cup {<<HandResult(q, "Right")>> : q \in right}
    \cup {<<HandResult(p, "Left"), HandResult(q, "Right")>> : p \in left, q \in right}
    \cup {<<HandResult(q, "Right"), HandResult(p, "Left")>> : p \in left, q \in right}

---------------------------------------------------------------------------
(* Mapping definitions supplied by the caller (types/mapping.ts) *)

Ids == {"a", "b"}

Input(type, hand, finger, lo, hi, curve) ==
    [type |-> type, hand |-> hand, finger |-> finger, inputRange |-> <<lo, hi>>, curve |-> curve]
Output(deviceId, parameterName, lo, hi, invert) ==
    [deviceId |-> deviceId, parameterName |-> parameterName, outputRange |-> <<lo, hi>>,
     invert |-> invert]
Smoothing(type, factor) == [type |-> type, factor |-> factor]
Mapping(id, input, output, smoothing) ==
    [id |-> id, enabled |-> TRUE, input |-> input, output |-> output, smoothing |-> smoothing]

\* the mapping objects the caller holds and registers; p1/p3/p5 and p2/p4/p6 share an id
Presets ==
    [p1 |-> Mapping("a",
                Input("wrist_position_x", "any", None, Zero, One, Some("smooth-step")),
                Output("master", "gain", Zero, One, FALSE),
                Smoothing("low-pass", Some(Half))),
     p2 |-> Mapping("b",
                Input("velocity_x", "Right", None, Zero, One, None),
                Output("synth", "pan", Zero, Int2Rat(2), TRUE),
                Smoothing("exponential", None)),
     p3 |-> Mapping("a",
                Input("pinch_distance", "Left", Some(INDEX_TIP), Zero, Half, Some("ease-in-out")),
                Output("filter", "cutoff", Rat(1, 10), One, TRUE),
                Smoothing("none", None)),
     p4 |-> Mapping("b",
                Input("wrist_position_y", "any", None, Half, Half, Some("linear")),
                Output("delay", "mix", Zero, One, FALSE),
                Smoothing("low-pass", Some(Half))),
     p5 |-> Mapping("a",
                Input("velocity_x", "Right", None, Zero, Rat(1, 8), Some("linear")),
                Output("osc", "detune", Zero, One, FALSE),
                Smoothing("low-pass", Some(Rat(1, 4)))),
     p6 |-> Mapping("b",
                Input("wrist_position_x", "any", None, Zero, One, None),
                Output("reverb", "size", Zero, One, FALSE),
                Smoothing("one-euro", None))]

PresetRefs == DOMAIN Presets

\* the Partial<GestureMapping> arguments of updateMapping()
Partials ==
    {[smoothing |-> Smoothing("low-pass", Some(Half))],
     [enabled |-> FALSE]}

---------------------------------------------------------------------------
(* Landmark functions (hand-tracking/landmarkUtils.ts).  A result is        *)
(* [ok, v]: the value returned, or ok = FALSE when reading a property of    *)
(* an undefined landmark raises a TypeError.                                *)

Value(v) == [ok |-> TRUE, v |-> v]
TypeError == [ok |-> FALSE, v |-> Zero]

distance2D(a, b) ==
    IF a = None \/ b = None THEN TypeError
    ELSE LET dx == Sub(a[1].x, b[1].x)
             dy == Sub(a[1].y, b[1].y)
         IN  Value(MathSqrt(Add(Mul(dx, dx), Mul(dy, dy))))

getPinchDistance(landmarks, fingerTip) ==
    distance2D(At(landmarks, THUMB_TIP), At(landmarks, fingerTip))

getPalmFacing(landmarks) ==
    LET wrist == At(landmarks, WRIST)
        middleMcp == At(landmarks, MIDDLE_MCP)
        indexMcp == At(landmarks, INDEX_MCP)
    IN  IF wrist = None \/ middleMcp = None \/ indexMcp = None THEN TypeError
        ELSE LET v1x == Sub(middleMcp[1].x, wrist[1].x)
                 v1y == Sub(middleMcp[1].y, wrist[1].y)
                 v2x == Sub(indexMcp[1].x, wrist[1].x)
                 v2y == Sub(indexMcp[1].y, wrist[1].y)
                 normalZ == Sub(Mul(v1x, v2y), Mul(v1y, v2x))
             IN  Value(Div(Add(MathSign(normalZ), One), Int2Rat(2)))

\* the landmark indices of a finger: [mcp, pip, dip, tip]
fingerIndices(finger) ==
    CASE finger = "thumb" -> <<THUMB_CMC, THUMB_MCP, THUMB_IP, THUMB_TIP>>
      [] finger = "index" -> <<INDEX_MCP, INDEX_PIP, INDEX_DIP, INDEX_TIP>>
      [] finger = "middle" -> <<MIDDLE_MCP, MIDDLE_PIP, MIDDLE_DIP, MIDDLE_TIP>>
      [] finger = "ring" -> <<RING_MCP, RING_PIP, RING_DIP, RING_TIP>>
      [] finger = "pinky" -> <<PINKY_MCP, PINKY_PIP, PINKY_DIP, PINKY_TIP>>

\* Math.acos(cos) / Math.PI at the cosines of a straight angle, a right angle and a
\* reflex turn (the angles the modelled hands take)
AcosOverPi(cos) ==
    CASE cos = One -> Zero
      [] cos = Zero -> Half
      [] cos = Int2Rat(-1) -> One
      [] IsNaN(cos) -> NaN

getFingerCurl(landmarks, finger) ==
    LET indices == fingerIndices(finger)
        mcp == At(landmarks, indices[1])
        pip == At(landmarks, indices[2])
        tip == At(landmarks, indices[4])
    IN  IF mcp = None \/ pip = None \/ tip = None THEN TypeError
        ELSE LET v1x == Sub(pip[1].x, mcp[1].x)
                 v1y == Sub(pip[1].y, mcp[1].y)
                 v2x == Sub(tip[1].x, pip[1].x)
                 v2y == Sub(tip[1].y, pip[1].y)
                 dot == Add(Mul(v1x, v2x), Mul(v1y, v2y))
                 mag1 == MathSqrt(Add(Mul(v1x, v1x), Mul(v1y, v1y)))
                 mag2 == MathSqrt(Add(Mul(v2x, v2x), Mul(v2y, v2y)))
             IN  IF mag1 = Zero \/ mag2 = Zero THEN Value(Zero)
                 ELSE LET cos == MathMax(Int2Rat(-1), MathMin(One, Div(dot, Mul(mag1, mag2))))
                      IN  Value(Sub(One, AcosOverPi(cos)))

\* the fingerMap of the finger_curl case: the finger a fingertip index selects
fingerMap(tipIndex) ==
    CASE tipIndex = THUMB_TIP -> Some("thumb")
      [] tipIndex = INDEX_TIP -> Some("index")
      [] tipIndex = MIDDLE_TIP -> Some("middle")
      [] tipIndex = RING_TIP -> Some("ring")
      [] tipIndex = PINKY_TIP -> Some("pinky")
      [] OTHER -> None

\* landmarks[WRIST].x / .y / .z
WristCoordinate(landmarks, axis) ==
    LET wrist == At(landmarks, WRIST)
    IN  IF wrist = None THEN TypeError
        ELSE Value(CASE axis = "x" -> wrist[1].x [] axis = "y" -> wrist[1].y [] OTHER -> wrist[1].z)

---------------------------------------------------------------------------
(* GestureMapper.extractGestureValue *)

ExtractGestureValue(landmarks, input, handedness, deltaTime, prevMap) ==
    CASE input.type = "pinch_distance" ->
            getPinchDistance(landmarks, OrElse(input.finger, INDEX_TIP))
      [] input.type = "finger_curl" ->
            getFingerCurl(landmarks, OrElse(fingerMap(OrElse(input.finger, INDEX_TIP)), "index"))
      [] input.type = "wrist_position_x" -> WristCoordinate(landmarks, "x")
      [] input.type = "wrist_position_y" -> WristCoordinate(landmarks, "y")
      [] input.type = "wrist_depth" -> WristCoordinate(landmarks, "z")
      [] input.type = "palm_facing" -> getPalmFacing(landmarks)
      [] input.type \in {"velocity_x", "velocity_y"} ->
            IF handedness \notin DOMAIN prevMap \/ deltaTime = 0 THEN Value(Zero)
            ELSE LET curr == At(landmarks, WRIST)
                     prev == At(prevMap[handedness], WRIST)
                 IN  IF curr = None \/ prev = None THEN TypeError
                     ELSE LET velocity ==
                                  IF input.type = "velocity_x"
                                  THEN Div(Sub(curr[1].x, prev[1].x), Int2Rat(deltaTime))
                                  ELSE Div(Sub(curr[1].y, prev[1].y), Int2Rat(deltaTime))
                          IN  Value(MathAbs(velocity))
      [] OTHER -> Value(Zero)

---------------------------------------------------------------------------
(* Filters (gestures/filters.ts).  A filter instance is [type, param, value]: *)
(* param is LowPassFilter.factor or ExponentialFilter.alpha, value is the    *)
(* filter's `value` field (None while null).                                 *)

DefaultFactor == Half
DefaultAlpha == Rat(3, 10)
MinAlpha == Rat(1, 100)

Clamp(v, lo, hi) == MathMax(lo, MathMin(hi, v))

LowPassFilter(factor) == [type |-> "low-pass", param |-> Clamp(factor, Zero, One), value |-> None]
ExponentialFilter(alpha) ==
    [type |-> "exponential", param |-> Clamp(alpha, MinAlpha, One), value |-> None]
PassThrough == [type |-> "none", param |-> Zero, value |-> None]

---------------------------------------------------------------------------
(* OneEuroFilter and its LowPassFilterInternal (gestures/filters.ts).  An      *)
(* instance is the record of its fields; Math.PI is the rational 355/113.     *)

Pi == Rat(355, 113)

\* the dt assumed at construction and on a first call, and the least dt of a later call
FrameDt == Rat(1, 60)
MinDt == Rat(1, 1000000)

\* new LowPassFilterInternal(alpha)
LowPassFilterInternal(alpha) == [y |-> None, alpha |-> alpha]

\* LowPassFilterInternal.filter(x) that starts from 0 where the code starts from x
LowPassFilterInternalFilter_FromZero(f, x) ==
    LET y == Add(Mul(f.alpha, x), Mul(Sub(One, f.alpha), OrElse(f.y, Zero)))
    IN  [filter |-> [f EXCEPT !.y = Some(y)], out |-> y]

\* LowPassFilterInternal.filter(x): the instance afterwards, and the value returned
LowPassFilterInternalFilter(f, x) ==
    LET y == IF f.y = None THEN x
             ELSE Add(Mul(f.alpha, x), Mul(Sub(One, f.alpha), f.y[1]))
    IN  [filter |-> [f EXCEPT !.y = Some(y)], out |-> y]

\* OneEuroFilter.alpha(cutoff, dt)
Alpha(cutoff, dt) ==
    LET tau == Div(One, Mul(Mul(Int2Rat(2), Pi), cutoff))
    IN  Div(One, Add(One, Div(tau, dt)))

\* new OneEuroFilter(minCutoff, beta, dCutoff)
OneEuroFilter(minCutoff, beta, dCutoff) ==
    [type |-> "one-euro", minCutoff |-> minCutoff, beta |-> beta, dCutoff |-> dCutoff,
     xFilter |-> LowPassFilterInternal(Alpha(minCutoff, FrameDt)),
     dxFilter |-> LowPassFilterInternal(Alpha(dCutoff, FrameDt)),
     lastTime |-> None, lastValue |-> None]

\* OneEuroFilter.filter(value, now): the instance afterwards, and the value returned
OneEuroFilterFilter(f, value, now) ==
    IF f.lastTime = None \/ f.lastValue = None
    THEN LET x == LowPassFilterInternalFilter(
                      [f.xFilter EXCEPT !.alpha = Alpha(f.minCutoff, FrameDt)], value)
         IN  [filter |-> [f EXCEPT !.lastTime = Some(now), !.lastValue = Some(value),
                                   !.xFilter = x.filter],
              out |-> x.out]
    ELSE LET dt == MathMax(Sub(now, f.lastTime[1]), MinDt)
             dx == Div(Sub(value, f.lastValue[1]), dt)
             d == LowPassFilterInternalFilter(
                      [f.dxFilter EXCEPT !.alpha = Alpha(f.dCutoff, dt)], dx)
             cutoff == Add(f.minCutoff, Mul(f.beta, MathAbs(d.out)))
             x == LowPassFilterInternalFilter(
                      [f.xFilter EXCEPT !.alpha = Alpha(cutoff, dt)], value)
         IN  [filter |-> [f EXCEPT !.lastTime = Some(now), !.lastValue = Some(value),
                                   !.dxFilter = d.filter, !.xFilter = x.filter],
              out |-> x.out]

\* OneEuroFilter.reset() that leaves the value filter as it is
OneEuroFilterReset_KeepsX(f) ==
    [f EXCEPT !.lastTime = None, !.lastValue = None, !.dxFilter.y = None]

\* OneEuroFilter.reset()
OneEuroFilterReset(f) ==
    [f EXCEPT !.lastTime = None, !.lastValue = None, !.xFilter.y = None, !.dxFilter.y = None]

---------------------------------------------------------------------------
(* MovingAverageFilter (gestures/filters.ts): [type, size, window, sum] *)

\* new MovingAverageFilter(windowSize)
MovingAverageFilter(windowSize) ==
    [type |-> "moving-average", size |-> MathMax(One, windowSize), window |-> <<>>,
     sum |-> Zero]

\* MovingAverageFilter.filter(value): the instance afterwards, and the value returned
MovingAverageFilterFilter(f, value) ==
    LET pushed == Append(f.window, value)
        added == Add(f.sum, value)
        over == Lt(f.size, Int2Rat(Len(pushed)))
        window == IF over THEN Tail(pushed) ELSE pushed
        sum == IF over THEN Sub(added, Head(pushed)) ELSE added
    IN  [filter |-> [f EXCEPT !.window = window, !.sum = sum],
         out |-> Div(sum, Int2Rat(Len(window)))]

\* MovingAverageFilter.reset()
MovingAverageFilterReset(f) == [f EXCEPT !.window = <<>>, !.sum = Zero]

\* `while (this.window.length > this.size) this.sum -= this.window.shift()`
RECURSIVE Trim(_, _)
Trim(f, size) ==
    IF Lt(size, Int2Rat(Len(f.window)))
    THEN Trim([f EXCEPT !.window = Tail(f.window), !.sum = Sub(f.sum, Head(f.window))], size)
    ELSE f

\* MovingAverageFilter.setWindowSize(size)
MovingAverageFilterSetWindowSize(f, size) ==
    Trim([f EXCEPT !.size = MathMax(One, size)], MathMax(One, size))

---------------------------------------------------------------------------
(* createFilter and the Filter interface (gestures/filters.ts) *)

DefaultMinCutoff == One
DefaultBeta == Rat(7, 1000)
DefaultDCutoff == One
DefaultWindowSize == Int2Rat(5)

\* config.name, None where the caller left the optional field out
Field(config, name) == IF name \in DOMAIN config THEN config[name] ELSE None

\* createFilter(config)
createFilter(config) ==
    CASE config.type = "low-pass" -> LowPassFilter(OrElse(Field(config, "factor"), DefaultFactor))
      [] config.type = "exponential" ->
            ExponentialFilter(OrElse(Field(config, "alpha"), DefaultAlpha))
      [] config.type = "one-euro" ->
            OneEuroFilter(OrElse(Field(config, "minCutoff"), DefaultMinCutoff),
                          OrElse(Field(config, "beta"), DefaultBeta),
                          OrElse(Field(config, "dCutoff"), DefaultDCutoff))
      [] config.type = "moving-average" ->
            MovingAverageFilter(OrElse(Field(config, "windowSize"), DefaultWindowSize))
      [] OTHER -> PassThrough

\* GestureMapper.createFilterForMapping: alpha and windowSize are not among the fields
\* handed on
createFilterForMapping(config) ==
    createFilter([type |-> config.type, factor |-> Field(config, "factor"),
                  minCutoff |-> Field(config, "minCutoff"), beta |-> Field(config, "beta"),
                  dCutoff |-> Field(config, "dCutoff")])

\* filter.filter(newValue, timestamp): the instance afterwards, and the value returned;
\* only the one-euro filter reads the timestamp (in seconds)
FilterApply(f, newValue, timestamp) ==
    CASE f.type = "low-pass" ->
            LET y == IF f.value = None THEN newValue
                     ELSE Add(Mul(f.value[1], f.param), Mul(newValue, Sub(One, f.param)))
            IN  [filter |-> [f EXCEPT !.value = Some(y)], out |-> y]
      [] f.type = "exponential" ->
            LET y == IF f.value = None THEN newValue
                     ELSE Add(Mul(f.param, newValue), Mul(Sub(One, f.param), f.value[1]))
            IN  [filter |-> [f EXCEPT !.value = Some(y)], out |-> y]
      [] f.type = "one-euro" -> OneEuroFilterFilter(f, newValue, timestamp)
      [] f.type = "moving-average" -> MovingAverageFilterFilter(f, newValue)
      [] OTHER -> [filter |-> f, out |-> newValue]

\* filter.reset()
FilterReset(f) ==
    CASE f.type \in {"low-pass", "exponential"} -> [f EXCEPT !.value = None]
      [] f.type = "one-euro" -> OneEuroFilterReset(f)
      [] f.type = "moving-average" -> MovingAverageFilterReset(f)
      [] OTHER -> f

---------------------------------------------------------------------------
(* GestureMapper.applyCurve and applyMapping *)

Cube(v) == Mul(Mul(v, v), v)

\* Math.log1p(value * (Math.E - 1)) / Math.log(Math.E), which is ln(1 + value * (e - 1)):
\* exact at 0 and 1, rounded to three decimals at the quarters between
Logarithmic(value) ==
    CASE value = Zero -> Zero
      [] value = Rat(1, 4) -> Rat(357, 1000)
      [] value = Half -> Rat(620, 1000)
      [] value = Rat(3, 4) -> Rat(828, 1000)
      [] value = One -> One
      [] IsNaN(value) -> NaN

\* applyCurve with smooth-step written as value * value * (3 - value)
applyCurve_SmoothStepSlip(value, curve) ==
    CASE curve = "linear" -> value
      [] curve = "exponential" -> Mul(value, value)
      [] curve = "logarithmic" -> Logarithmic(value)
      [] curve = "ease-in" -> Cube(value)
      [] curve = "ease-out" -> Sub(One, Cube(Sub(One, value)))
      [] curve = "ease-in-out" ->
            IF Lt(value, Half) THEN Mul(Int2Rat(4), Cube(value))
            ELSE Sub(One, Div(Cube(Add(Mul(Int2Rat(-2), value), Int2Rat(2))), Int2Rat(2)))
      [] curve = "smooth-step" -> Mul(Mul(value, value), Sub(Int2Rat(3), value))
      [] OTHER -> value

applyCurve(value, curve) ==
    CASE curve = "linear" -> value
      [] curve = "exponential" -> Mul(value, value)
      [] curve = "logarithmic" -> Logarithmic(value)
      [] curve = "ease-in" -> Cube(value)
      [] curve = "ease-out" -> Sub(One, Cube(Sub(One, value)))
      [] curve = "ease-in-out" ->
            IF Lt(value, Half) THEN Mul(Int2Rat(4), Cube(value))
            ELSE Sub(One, Div(Cube(Add(Mul(Int2Rat(-2), value), Int2Rat(2))), Int2Rat(2)))
      [] curve = "smooth-step" ->
            Mul(Mul(value, value), Sub(Int2Rat(3), Mul(Int2Rat(2), value)))
      [] OTHER -> value

\* the normalization without its clamp
Normalize_Unclamped(value, mapping) ==
    Div(Sub(value, mapping.input.inputRange[1]),
        Sub(mapping.input.inputRange[2], mapping.input.inputRange[1]))

\* the value handed to the curve: (value - inMin) / (inMax - inMin), clamped to [0, 1]
Normalize(value, mapping) ==
    LET inMin == mapping.input.inputRange[1]
        inMax == mapping.input.inputRange[2]
        normalized == Div(Sub(value, inMin), Sub(inMax, inMin))
    IN  MathMax(Zero, MathMin(One, normalized))

\* applyMapping whose inversion is outMax - outputValue
applyMapping_InvertSlip(value, mapping) ==
    LET curved == applyCurve(Normalize(value, mapping), OrElse(mapping.input.curve, "linear"))
        outMin == mapping.output.outputRange[1]
        outMax == mapping.output.outputRange[2]
        outputValue == Add(outMin, Mul(curved, Sub(outMax, outMin)))
    IN  IF mapping.output.invert THEN Sub(outMax, outputValue) ELSE outputValue

applyMapping(value, mapping) ==
    LET curved == applyCurve(Normalize(value, mapping), OrElse(mapping.input.curve, "linear"))
        outMin == mapping.output.outputRange[1]
        outMax == mapping.output.outputRange[2]
        outputValue == Add(outMin, Mul(curved, Sub(outMax, outMin)))
    IN  IF mapping.output.invert THEN Sub(outMax, Sub(outputValue, outMin)) ELSE outputValue

---------------------------------------------------------------------------
(* The orchestrator: class GestureMapper *)

EmptyMap == [x \in {} |-> x]

ZeroState == [rawValue |-> Zero, smoothedValue |-> Zero, outputValue |-> Zero, lastUpdate |-> 0]

\* how a call can end: "void" (returned nothing), "states" / "state" (returned the map of
\* states / one state record), "undefined" (returned undefined in place of a record),
\* "TypeError" (threw)
Outcomes == {"void", "states", "state", "undefined", "TypeError"}
Result(op, outcome) == [op |-> op, outcome |-> outcome]

\* the mapping object stored under a registered id
MappingOf(id) == mappings[id]

\* a second instance with nothing registered: the ids it holds caller objects under,
\* its filters and its state records
NoPeer == [mappings |-> EmptyMap, filters |-> EmptyMap, states |-> EmptyMap]

\* no function is being exercised on its own
NoProbe == [op |-> "none"]

\* the fields of a GestureMapper just constructed, and the caller's objects untouched
Constructed ==
    /\ mappings = EmptyMap
    /\ mappingOrder = <<>>
    /\ filters = EmptyMap
    /\ states = EmptyMap
    /\ previousLandmarks = EmptyMap
    /\ previousTimestamp = 0
    /\ onParameterChange = FALSE
    /\ calls = <<>>
    /\ result = Result("new", "void")
    /\ nframes = 0
    /\ presets = Presets
    /\ held = EmptyMap
    /\ peer = NoPeer

Init == Constructed /\ probe = NoProbe

\* the variables of the orchestrator and of its caller
instance == <<mappings, mappingOrder, filters, states, previousLandmarks, previousTimestamp,
              onParameterChange, calls, result, nframes, presets, held, peer>>

\* setParameterCallback(callback)
SetParameterCallback ==
    /\ onParameterChange' = TRUE
    /\ calls' = <<>>
    /\ result' = Result("setParameterCallback", "void")
    /\ UNCHANGED <<registry, previousLandmarks, previousTimestamp, nframes>>
    /\ UNCHANGED <<presets, held, peer, probe>>

\* addMapping(mapping), mapping being the caller's object Presets[ref]
AddMapping(ref) ==
    LET mapping == Presets[ref]
        id == mapping.id
    IN  /\ mappings' = MapSet(mappings, id, mapping)
        /\ mappingOrder' = OrderSet(mappingOrder, id)
        /\ filters' = MapSet(filters, id, createFilterForMapping(mapping.smoothing))
        /\ states' = MapSet(states, id, ZeroState)
        /\ calls' = <<>>
        /\ result' = Result("addMapping", "void")
        /\ held' = MapDelete(held, id)
        /\ UNCHANGED <<previousLandmarks, previousTimestamp, onParameterChange, nframes>>
        /\ UNCHANGED <<presets, peer, probe>>

\* removeMapping(id) that leaves the filter of the id behind
RemoveMapping_KeepsFilter(id) ==
    /\ mappings' = MapDelete(mappings, id)
    /\ mappingOrder' = OrderDelete(mappingOrder, id)
    /\ filters' = filters
    /\ states' = MapDelete(states, id)
    /\ calls' = <<>>
    /\ result' = Result("removeMapping", "void")
    /\ held' = MapDelete(held, id)
    /\ UNCHANGED <<previousLandmarks, previousTimestamp, onParameterChange, nframes>>
    /\ UNCHANGED <<presets, peer, probe>>

\* removeMapping(id)
RemoveMapping(id) ==
    /\ mappings' = MapDelete(mappings, id)
    /\ mappingOrder' = OrderDelete(mappingOrder, id)
    /\ filters' = MapDelete(filters, id)
    /\ states' = MapDelete(states, id)
    /\ calls' = <<>>
    /\ result' = Result("removeMapping", "void")
    /\ held' = MapDelete(held, id)
    /\ UNCHANGED <<previousLandmarks, previousTimestamp, onParameterChange, nframes>>
    /\ UNCHANGED <<presets, peer, probe>>

\* { ...mapping, ...updates }
Merge(mapping, updates) ==
    [f \in DOMAIN mapping \cup DOMAIN updates |->
        IF f \in DOMAIN updates THEN updates[f] ELSE mapping[f]]

\* `if (updates.smoothing)`: the partial carries a smoothing object
RecreatesFilter(mapping, updates) == "smoothing" \in DOMAIN updates

\* updateMapping(id, updates) without the `if (!mapping) return` guard: { ...undefined,
\* ...updates } is stored under an id that was not registered
UpdateMapping_NoGuard(id, updates) ==
    /\ mappings' = MapSet(mappings, id,
                          IF id \in DOMAIN mappings THEN Merge(MappingOf(id), updates)
                          ELSE updates)
    /\ mappingOrder' = OrderSet(mappingOrder, id)
    /\ filters' = IF "smoothing" \in DOMAIN updates
                  THEN MapSet(filters, id, createFilterForMapping(updates.smoothing))
                  ELSE filters
    /\ states' = states
    /\ calls' = <<>>
    /\ result' = Result("updateMapping", "void")
    /\ held' = MapDelete(held, id)
    /\ UNCHANGED <<previousLandmarks, previousTimestamp, onParameterChange, nframes>>
    /\ UNCHANGED <<presets, peer, probe>>

\* updateMapping(id, updates) that rebuilds the filter of every mapping, not of `id` alone
UpdateMapping_RebuildsAll(id, updates) ==
    /\ IF id \notin DOMAIN mappings
       THEN UNCHANGED registry
       ELSE LET updated == Merge(MappingOf(id), updates)
            IN  /\ mappings' = MapSet(mappings, id, updated)
                /\ mappingOrder' = OrderSet(mappingOrder, id)
                /\ filters' = IF RecreatesFilter(MappingOf(id), updates)
                              THEN [k \in DOMAIN filters |->
                                      createFilterForMapping(
                                          IF k = id THEN updated.smoothing
                                          ELSE mappings[k].smoothing)]
                              ELSE filters
                /\ states' = states
    /\ calls' = <<>>
    /\ result' = Result("updateMapping", "void")
    /\ held' = MapDelete(held, id)
    /\ UNCHANGED <<previousLandmarks, previousTimestamp, onParameterChange, nframes>>
    /\ UNCHANGED <<presets, peer, probe>>

\* updateMapping(id, updates)
UpdateMapping(id, updates) ==
    /\ IF id \notin DOMAIN mappings
       THEN UNCHANGED registry
       ELSE LET updated == Merge(MappingOf(id), updates)
            IN  /\ mappings' = MapSet(mappings, id, updated)
                /\ mappingOrder' = OrderSet(mappingOrder, id)
                /\ filters' = IF RecreatesFilter(MappingOf(id), updates)
                              THEN MapSet(filters, id, createFilterForMapping(updated.smoothing))
                              ELSE filters
                /\ states' = states
    /\ calls' = <<>>
    /\ result' = Result("updateMapping", "void")
    /\ held' = MapDelete(held, id)
    /\ UNCHANGED <<previousLandmarks, previousTimestamp, onParameterChange, nframes>>
    /\ UNCHANGED <<presets, peer, probe>>

\* `mapping.enabled = enabled` assigns to the object this.mappings holds: where that is the
\* caller's own object, the caller's object has the new flag
Mutated(objects, id, enabled) ==
    IF id \in DOMAIN held
    THEN [objects EXCEPT ![held[id]].enabled = enabled]
    ELSE objects

\* setMappingEnabled(id, enabled) that restarts the filter when it enables
SetMappingEnabled_ResetsFilter(id, enabled) ==
    /\ mappings' = IF id \in DOMAIN mappings
                   THEN [mappings EXCEPT ![id].enabled = enabled]
                   ELSE mappings
    /\ filters' = IF id \in DOMAIN filters /\ enabled
                  THEN [filters EXCEPT ![id] = FilterReset(filters[id])]
                  ELSE filters
    /\ calls' = <<>>
    /\ result' = Result("setMappingEnabled", "void")
    /\ presets' = Mutated(presets, id, enabled)
    /\ UNCHANGED <<mappingOrder, states, previousLandmarks, previousTimestamp,
                   onParameterChange, nframes>>
    /\ UNCHANGED <<held, peer, probe>>

\* setMappingEnabled(id, enabled)
SetMappingEnabled(id, enabled) ==
    /\ mappings' = IF id \in DOMAIN mappings
                   THEN [mappings EXCEPT ![id].enabled = enabled]
                   ELSE mappings
    /\ calls' = <<>>
    /\ result' = Result("setMappingEnabled", "void")
    /\ presets' = Mutated(presets, id, enabled)
    /\ UNCHANGED <<mappingOrder, filters, states, previousLandmarks,
                   previousTimestamp, onParameterChange, nframes>>
    /\ UNCHANGED <<held, peer, probe>>

\* getState(id): the stored record, or undefined
GetState(id) ==
    /\ calls' = <<>>
    /\ result' = Result("getState", IF id \in DOMAIN states THEN "state" ELSE "undefined")
    /\ UNCHANGED <<registry, previousLandmarks, previousTimestamp, onParameterChange, nframes>>
    /\ UNCHANGED <<presets, held, peer, probe>>

\* reset() that zeroes the records but leaves the filters as they are
Reset_KeepsFilters ==
    /\ filters' = filters
    /\ states' = [id \in DOMAIN states |-> ZeroState]
    /\ previousLandmarks' = EmptyMap
    /\ previousTimestamp' = 0
    /\ calls' = <<>>
    /\ result' = Result("reset", "void")
    /\ UNCHANGED <<mappings, mappingOrder, onParameterChange, nframes>>
    /\ UNCHANGED <<presets, held, peer, probe>>

\* reset()
Reset ==
    /\ filters' = [id \in DOMAIN filters |-> FilterReset(filters[id])]
    /\ states' = [id \in DOMAIN states |-> ZeroState]
    /\ previousLandmarks' = EmptyMap
    /\ previousTimestamp' = 0
    /\ calls' = <<>>
    /\ result' = Result("reset", "void")
    /\ UNCHANGED <<mappings, mappingOrder, onParameterChange, nframes>>
    /\ UNCHANGED <<presets, held, peer, probe>>

---------------------------------------------------------------------------
(* GestureMapper.process *)

\* findHand that takes the first hand whatever the target
findHand_First(hands, target) ==
    IF Len(hands) >= 1 THEN Some(hands[1]) ELSE None

\* findHand that falls back on the first hand when none has the handedness asked for
findHand_Fallback(hands, target) ==
    LET found == SelectSeq(hands, LAMBDA h : h.handedness = target)
    IN  IF Len(found) >= 1 THEN Some(found[1])
        ELSE IF Len(hands) >= 1 THEN Some(hands[1]) ELSE None

\* findHand(hands, target): the hand found, or None
findHand(hands, target) ==
    IF target = "any"
    THEN (IF Len(hands) >= 1 THEN Some(hands[1]) ELSE None)
    ELSE LET found == SelectSeq(hands, LAMBDA h : h.handedness = target)
         IN  IF Len(found) >= 1 THEN Some(found[1]) ELSE None

\* a loop that does not look at the enabled flag
IsEnabled_Always(mapping) == TRUE

\* `if (!mapping.enabled) continue`
IsEnabled(mapping) == mapping.enabled

\* the state record written for a processed mapping
NewState(rawValue, smoothedValue, outputValue, timestamp) ==
    [rawValue |-> rawValue, smoothedValue |-> smoothedValue, outputValue |-> outputValue,
     lastUpdate |-> timestamp]

\* an invocation guarded by the truthiness of the value: 0 and NaN are not delivered
Emit_IfTruthy(log, callback, id, mapping, outputValue) ==
    IF callback /\ outputValue # Zero /\ outputValue # NaN
    THEN Append(log, [id |-> id, deviceId |-> mapping.output.deviceId,
                      parameterName |-> mapping.output.parameterName, value |-> outputValue])
    ELSE log

\* `if (this.onParameterChange) this.onParameterChange(deviceId, parameterName, outputValue)`;
\* each invocation is logged with the id of the mapping it was made for
Emit(log, callback, id, mapping, outputValue) ==
    IF callback
    THEN Append(log, [id |-> id, deviceId |-> mapping.output.deviceId,
                      parameterName |-> mapping.output.parameterName, value |-> outputValue])
    ELSE log

\* the rest of the loop body once the smoothed value is known: the mapping applied, the
\* state record written, the callback invoked and the landmarks cached
Deliver(acc, id, mapping, hand, rawValue, step, timestamp) ==
    CHOOSE next \in
        {[filters |-> IF id \in DOMAIN acc.filters THEN MapSet(acc.filters, id, step.filter)
                      ELSE acc.filters,
          states |-> MapSet(acc.states, id,
                            NewState(rawValue, step.out, outputValue, timestamp)),
          calls |-> Emit(acc.calls, onParameterChange, id, mapping, outputValue),
          previousLandmarks |-> MapSet(acc.previousLandmarks, hand.handedness, hand.landmarks),
          thrown |-> None] : outputValue \in {applyMapping(step.out, mapping)}} : TRUE

\* the loop body from the raw value on: the filter of the id applied to it
Smooth(acc, id, mapping, hand, rawValue, timestamp) ==
    IF ~rawValue.ok THEN [acc EXCEPT !.thrown = Some(id)]
    ELSE CHOOSE next \in
            {Deliver(acc, id, mapping, hand, rawValue.v, step, timestamp) :
                step \in {IF id \in DOMAIN acc.filters
                          THEN FilterApply(acc.filters[id], rawValue.v, Rat(timestamp, 1000))
                          ELSE [filter |-> PassThrough, out |-> rawValue.v]}} : TRUE

\* one pass of the loop body for the entry `id`; acc holds the maps as the loop has left
\* them.  Each intermediate value (rawValue, smoothedValue, outputValue) is computed once
\* and bound, as the code's `const` declarations do.
ProcessMapping(acc, id, mapping, hands, timestamp, deltaTime) ==
    LET hand == findHand(hands, mapping.input.hand)
    IN  IF ~IsEnabled(mapping) THEN acc
        ELSE IF hand = None THEN acc
        ELSE CHOOSE next \in
                {Smooth(acc, id, mapping, hand[1], rawValue, timestamp) :
                    rawValue \in {ExtractGestureValue(hand[1].landmarks, mapping.input,
                                                     hand[1].handedness, deltaTime,
                                                     acc.previousLandmarks)}} : TRUE

\* the loop body for the entry `id` of this.mappings
ProcessOne(acc, id, hands, timestamp, deltaTime) ==
    ProcessMapping(acc, id, MappingOf(id), hands, timestamp, deltaTime)

\* `for (const [id, mapping] of this.mappings)`: in insertion order, until an error propagates
RECURSIVE ProcessLoop(_, _, _, _, _)
ProcessLoop(acc, order, hands, timestamp, deltaTime) ==
    IF order = <<>> \/ acc.thrown # None THEN acc
    ELSE ProcessLoop(ProcessOne(acc, Head(order), hands, timestamp, deltaTime),
                     Tail(order), hands, timestamp, deltaTime)

\* what process(result) leaves behind, result being [hands, timestamp]
ProcessOutcome(frame) ==
    ProcessLoop([filters |-> filters, states |-> states, calls |-> <<>>,
                 previousLandmarks |-> previousLandmarks, thrown |-> None],
                mappingOrder, frame.hands, frame.timestamp,
                frame.timestamp - previousTimestamp)

\* process(result), for a frame stamped no earlier than the previous one
ProcessCall(frame) ==
    LET done == ProcessOutcome(frame)
    IN  /\ frame.timestamp >= previousTimestamp
        /\ nframes' = nframes + 1
        /\ previousTimestamp' = frame.timestamp
        /\ filters' = done.filters
        /\ states' = done.states
        /\ previousLandmarks' = done.previousLandmarks
        /\ calls' = done.calls
        /\ result' = Result("process", IF done.thrown = None THEN "states" ELSE "TypeError")
        /\ UNCHANGED <<mappings, mappingOrder, onParameterChange>>
        /\ UNCHANGED <<presets, held, peer>>

\* process(result), one of at most MaxFrames calls
Process(frame) ==
    /\ nframes < MaxFrames
    /\ ProcessCall(frame)
    /\ UNCHANGED probe

\* frame timestamps in milliseconds: a first frame, one at the same instant or a 60 fps
\* interval later
Timestamps == {0, 16}

\* frames as the data model describes them: every hand has 21 landmarks
Frames == [hands : HandLists({PoseA}, {PoseB}), timestamp : Timestamps]
\* frames that may carry an incomplete hand
AnyFrames == [hands : HandLists({PoseA, PoseShort}, {PoseB}), timestamp : Timestamps]

Calls(refs, frames) ==
    \/ SetParameterCallback
    \/ \E ref \in refs : AddMapping(ref)
    \/ \E id \in Ids : RemoveMapping(id)
    \/ \E id \in Ids, updates \in Partials : UpdateMapping(id, updates)
    \/ \E id \in Ids, enabled \in BOOLEAN : SetMappingEnabled(id, enabled)
    \/ \E id \in Ids : GetState(id)
    \/ Reset
    \/ \E frame \in frames : Process(frame)

\* the presets the orchestrator is driven with
CoreRefs == {"p1", "p3", "p4"}

Next == Calls(CoreRefs, Frames)
Spec == Init /\ [][Next]_vars

NextAnyFrame == Calls(CoreRefs, AnyFrames)
SpecAnyFrame == Init /\ [][NextAnyFrame]_vars

\* velocity mappings on the right hand, which moves between PoseB and PoseC; frames one
\* 60 fps interval apart or at the same instant
VelocityRefs == {"p2", "p5"}
VelocityTimestamps == {16, 32}
VelocityFrames == [hands : HandLists({}, {PoseB, PoseC}), timestamp : VelocityTimestamps]

NextVelocity == Calls(VelocityRefs, VelocityFrames)
SpecVelocity == Init /\ [][NextVelocity]_vars

\* Partial<GestureMapping> arguments that carry an id field
IdPartials == {[id |-> "a"], [id |-> "b"]}
\* frames with a left hand or none, at one instant
IdFrames == [hands : HandLists({PoseA}, {}), timestamp : {16}]

\* the orchestrator driven with such partials
NextIdPartial ==
    \/ SetParameterCallback
    \/ \E ref \in {"p1", "p4"} : AddMapping(ref)
    \/ \E id \in Ids : RemoveMapping(id)
    \/ \E id \in Ids, updates \in IdPartials : UpdateMapping(id, updates)
    \/ \E frame \in IdFrames : Process(frame)
SpecIdPartial == Init /\ [][NextIdPartial]_vars

---------------------------------------------------------------------------
(* One velocity mapping over three frames, the right hand present or not.   *)
(* probe.at records, per handedness, the timestamp of the process() call    *)
(* that stored the landmarks now cached for it.                             *)

TimedRefs == {"p5"}
TimedFrames == [hands : HandLists({}, {PoseB, PoseC}), timestamp : {16, 32, 48}]

InitTimed == Constructed /\ probe = [op |-> "snapshots", at |-> EmptyMap]

\* the handednesses whose landmarks process(frame) stores: those of the hands resolved for an
\* enabled mapping
Stored(frame) ==
    {h \in Handednesses :
        \E id \in DOMAIN mappings :
            /\ IsEnabled(mappings[id])
            /\ findHand(frame.hands, mappings[id].input.hand) # None
            /\ findHand(frame.hands, mappings[id].input.hand)[1].handedness = h}

\* process(result), with the time of each snapshot noted
TimedProcess(frame) ==
    /\ nframes < MaxTimedFrames
    /\ ProcessCall(frame)
    /\ probe' = [probe EXCEPT !.at = [h \in DOMAIN probe.at \cup Stored(frame) |->
                                        IF h \in Stored(frame) THEN frame.timestamp
                                        ELSE probe.at[h]]]

NextTimed ==
    \/ \E ref \in TimedRefs : AddMapping(ref)
    \/ \E id \in {"a"}, enabled \in BOOLEAN : SetMappingEnabled(id, enabled)
    \/ \E frame \in TimedFrames : TimedProcess(frame)
SpecTimed == InitTimed /\ [][NextTimed]_vars

---------------------------------------------------------------------------
(* An orchestrator that was used and reset, beside one just constructed in  *)
(* which the entries of this.mappings were registered in their order.  Both *)
(* are given the same frames and the same callback; probe holds the second. *)

FreshRefs == {"p1", "p6"}
\* frames a second apart
FreshFrames == [hands : HandLists({PoseA}, {PoseB}), timestamp : {1000, 2000}]

InitFresh == Constructed /\ probe = [op |-> "fresh", live |-> FALSE]

\* addMapping(spec) for each spec in turn, on the maps of `reg`
RECURSIVE RegisterAll(_, _)
RegisterAll(reg, specs) ==
    IF specs = <<>> THEN reg
    ELSE LET mapping == Head(specs)
             id == mapping.id
         IN  RegisterAll([mappings |-> MapSet(reg.mappings, id, mapping),
                          mappingOrder |-> OrderSet(reg.mappingOrder, id),
                          filters |-> MapSet(reg.filters, id,
                                             createFilterForMapping(mapping.smoothing)),
                          states |-> MapSet(reg.states, id, ZeroState)],
                         Tail(specs))

\* new GestureMapper() followed by addMapping of every spec held now, in the order held
Fresh ==
    LET reg == RegisterAll([mappings |-> EmptyMap, mappingOrder |-> <<>>,
                            filters |-> EmptyMap, states |-> EmptyMap],
                           [i \in 1..Len(mappingOrder) |-> mappings[mappingOrder[i]]])
    IN  [op |-> "fresh", live |-> TRUE, n |-> 0,
         mappings |-> reg.mappings, mappingOrder |-> reg.mappingOrder,
         filters |-> reg.filters, states |-> reg.states,
         previousLandmarks |-> EmptyMap, previousTimestamp |-> 0, calls |-> <<>>]

\* the loop of process() over the entries of the second orchestrator
RECURSIVE FreshLoop(_, _, _, _, _, _)
FreshLoop(maps, acc, order, hands, timestamp, deltaTime) ==
    IF order = <<>> \/ acc.thrown # None THEN acc
    ELSE FreshLoop(maps,
                   ProcessMapping(acc, Head(order), maps[Head(order)], hands, timestamp,
                                  deltaTime),
                   Tail(order), hands, timestamp, deltaTime)

\* process(frame) on the second orchestrator
FreshAfter(twin, frame) ==
    LET done == FreshLoop(twin.mappings,
                          [filters |-> twin.filters, states |-> twin.states, calls |-> <<>>,
                           previousLandmarks |-> twin.previousLandmarks, thrown |-> None],
                          twin.mappingOrder, frame.hands, frame.timestamp,
                          frame.timestamp - twin.previousTimestamp)
    IN  [twin EXCEPT !.n = twin.n + 1,
                     !.filters = done.filters, !.states = done.states,
                     !.previousLandmarks = done.previousLandmarks,
                     !.previousTimestamp = frame.timestamp,
                     !.calls = done.calls]

\* process(frame) on both: the first frame after reset() meets the second orchestrator
\* as constructed, a later one as the frames before left it
FreshProcess(frame) ==
    /\ IF probe.live THEN probe.n < MaxFreshFrames ELSE result.op = "reset"
    /\ ProcessCall(frame)
    /\ probe' = FreshAfter(IF probe.live THEN probe ELSE Fresh, frame)

\* the calls made before reset()
FreshCalls(partials) ==
    /\ ~probe.live
    /\ \/ SetParameterCallback
       \/ \E ref \in FreshRefs : AddMapping(ref)
       \/ \E id \in Ids, updates \in partials : UpdateMapping(id, updates)
       \/ \E id \in Ids, enabled \in BOOLEAN : SetMappingEnabled(id, enabled)
       \/ \E frame \in FreshFrames : Process(frame)
       \/ Reset

NextFresh ==
    \/ FreshCalls(IdPartials)
    \/ \E frame \in FreshFrames : FreshProcess(frame)
SpecFresh == InitFresh /\ [][NextFresh]_vars

---------------------------------------------------------------------------
(* process() step by step, with an output callback that calls back into the  *)
(* orchestrator.  probe holds the call in flight: the frame, the position of  *)
(* the Map iterator (cursor: how many live entries of this.mappings it has    *)
(* passed), where the call stands (pc), the ids registered when it started    *)
(* and the ids whose loop body has run.  A Map iterator is live: an entry     *)
(* appended during the loop is visited, a deleted one is not, and an entry    *)
(* deleted and set again is a new entry at the end.                           *)

Idle == probe.op \in {"none", "processed"}
InCallback == probe.op = "process" /\ probe.pc = "callback"

\* process(result) up to the loop: deltaTime taken, previousTimestamp stored
ProcessBegin(frame) ==
    /\ Idle
    /\ nframes < MaxFrames
    /\ frame.timestamp >= previousTimestamp
    /\ nframes' = nframes + 1
    /\ previousTimestamp' = frame.timestamp
    /\ calls' = <<>>
    /\ probe' = [op |-> "process", pc |-> "loop", frame |-> frame,
                 deltaTime |-> frame.timestamp - previousTimestamp, cursor |-> 0,
                 atStart |-> DOMAIN mappings, processed |-> <<>>, reentries |-> 0]
    /\ UNCHANGED <<registry, previousLandmarks, onParameterChange, result, presets, held, peer>>

\* one pass of the loop body, for the entry after the cursor; when it invokes the
\* callback, the call stands inside the callback until CallbackReturn.  (The landmarks are
\* cached after the callback returns; the calls modelled inside it do not read them.)
ProcessStep ==
    /\ probe.op = "process" /\ probe.pc = "loop"
    /\ probe.cursor < Len(mappingOrder)
    /\ LET id == mappingOrder[probe.cursor + 1]
           done == ProcessOne([filters |-> filters, states |-> states, calls |-> calls,
                               previousLandmarks |-> previousLandmarks, thrown |-> None],
                              id, probe.frame.hands, probe.frame.timestamp, probe.deltaTime)
           ran == /\ IsEnabled(MappingOf(id))
                  /\ findHand(probe.frame.hands, MappingOf(id).input.hand) # None
       IN  /\ filters' = done.filters
           /\ states' = done.states
           /\ calls' = done.calls
           /\ previousLandmarks' = done.previousLandmarks
           /\ probe' = [probe EXCEPT !.cursor = @ + 1,
                                     !.pc = IF done.calls # calls THEN "callback" ELSE "loop",
                                     !.processed = IF ran THEN Append(@, id) ELSE @]
    /\ UNCHANGED <<mappings, mappingOrder, previousTimestamp, onParameterChange, result,
                   nframes, presets, held, peer>>

\* the callback calls addMapping(mapping)
CallbackAddMapping(ref) ==
    LET mapping == Presets[ref]
        id == mapping.id
    IN  /\ InCallback
        /\ probe.reentries < MaxReentries
        /\ mappings' = MapSet(mappings, id, mapping)
        /\ mappingOrder' = OrderSet(mappingOrder, id)
        /\ filters' = MapSet(filters, id, createFilterForMapping(mapping.smoothing))
        /\ states' = MapSet(states, id, ZeroState)
        /\ probe' = [probe EXCEPT !.reentries = @ + 1]
        /\ UNCHANGED <<previousLandmarks, previousTimestamp, onParameterChange, calls, result,
                       nframes, presets, held, peer>>

\* the position of a key in the Map's order (0 when absent)
PositionOf(order, k) == IF \E i \in 1..Len(order) : order[i] = k
                        THEN CHOOSE i \in 1..Len(order) : order[i] = k ELSE 0

\* the callback calls removeMapping(id); an entry the iterator has passed leaves the
\* iterator one entry further back in the order that remains
CallbackRemoveMapping(id) ==
    /\ InCallback
    /\ probe.reentries < MaxReentries
    /\ mappings' = MapDelete(mappings, id)
    /\ mappingOrder' = OrderDelete(mappingOrder, id)
    /\ filters' = MapDelete(filters, id)
    /\ states' = MapDelete(states, id)
    /\ probe' = [probe EXCEPT !.reentries = @ + 1,
                              !.cursor = IF PositionOf(mappingOrder, id) \in 1..probe.cursor
                                         THEN @ - 1 ELSE @]
    /\ UNCHANGED <<previousLandmarks, previousTimestamp, onParameterChange, calls, result,
                   nframes, presets, held, peer>>

\* the callback calls updateMapping(id, updates)
CallbackUpdateMapping(id, updates) ==
    /\ InCallback
    /\ probe.reentries < MaxReentries
    /\ IF id \notin DOMAIN mappings
       THEN UNCHANGED registry
       ELSE LET updated == Merge(MappingOf(id), updates)
            IN  /\ mappings' = MapSet(mappings, id, updated)
                /\ mappingOrder' = OrderSet(mappingOrder, id)
                /\ filters' = IF RecreatesFilter(MappingOf(id), updates)
                              THEN MapSet(filters, id, createFilterForMapping(updated.smoothing))
                              ELSE filters
                /\ states' = states
    /\ probe' = [probe EXCEPT !.reentries = @ + 1]
    /\ UNCHANGED <<previousLandmarks, previousTimestamp, onParameterChange, calls, result,
                   nframes, presets, held, peer>>

\* the callback returns and the loop goes on
CallbackReturn ==
    /\ InCallback
    /\ probe' = [probe EXCEPT !.pc = "loop"]
    /\ UNCHANGED instance

\* the iterator is exhausted: process returns this.states
ProcessEnd ==
    /\ probe.op = "process" /\ probe.pc = "loop"
    /\ probe.cursor >= Len(mappingOrder)
    /\ result' = Result("process", "states")
    /\ probe' = [op |-> "processed", atStart |-> probe.atStart, processed |-> probe.processed]
    /\ UNCHANGED <<registry, previousLandmarks, previousTimestamp, onParameterChange, calls,
                   nframes, presets, held, peer>>

\* mappings on any hand, with ids "a" and "b"
ReentrantRefs == {"p1", "p4"}

NextReentrant ==
    \/ Idle /\ SetParameterCallback
    \/ \E ref \in ReentrantRefs : Idle /\ AddMapping(ref)
    \/ \E frame \in IdFrames : ProcessBegin(frame)
    \/ ProcessStep
    \/ \E ref \in ReentrantRefs : CallbackAddMapping(ref)
    \/ \E id \in Ids : CallbackRemoveMapping(id)
    \/ \E id \in Ids, updates \in Partials : CallbackUpdateMapping(id, updates)
    \/ CallbackReturn
    \/ ProcessEnd
SpecReentrant == Init /\ [][NextReentrant]_vars

---------------------------------------------------------------------------
(* Two GestureMapper instances of one caller, who registers its preset objects *)
(* themselves (getAllPresets returns the same objects on every call).  A Map   *)
(* stores the reference it is given, so an object registered in both          *)
(* instances is one object.                                                    *)

\* addMapping(mapping), mapping being the caller's object `ref` itself
AddSharedMapping(ref) ==
    LET mapping == presets[ref]
        id == mapping.id
    IN  /\ mappings' = MapSet(mappings, id, mapping)
        /\ mappingOrder' = OrderSet(mappingOrder, id)
        /\ filters' = MapSet(filters, id, createFilterForMapping(mapping.smoothing))
        /\ states' = MapSet(states, id, ZeroState)
        /\ calls' = <<>>
        /\ result' = Result("addMapping", "void")
        /\ held' = MapSet(held, id, ref)
        /\ UNCHANGED <<previousLandmarks, previousTimestamp, onParameterChange, nframes>>
        /\ UNCHANGED <<presets, peer, probe>>

\* the second instance's addMapping(mapping) with the caller's object `ref`
PeerAddMapping(ref) ==
    LET mapping == presets[ref]
        id == mapping.id
    IN  /\ peer' = [mappings |-> MapSet(peer.mappings, id, ref),
                    filters |-> MapSet(peer.filters, id,
                                       createFilterForMapping(mapping.smoothing)),
                    states |-> MapSet(peer.states, id, ZeroState)]
        /\ calls' = <<>>
        /\ result' = Result("peer.addMapping", "void")
        /\ UNCHANGED <<registry, previousLandmarks, previousTimestamp, onParameterChange,
                       nframes, presets, held, probe>>

\* the second instance's setMappingEnabled(id, enabled): `mapping.enabled = enabled` on the
\* object it holds, which every other holder of that object reads
PeerSetMappingEnabled(id, enabled) ==
    /\ IF id \in DOMAIN peer.mappings
       THEN LET ref == peer.mappings[id]
            IN  /\ presets' = [presets EXCEPT ![ref].enabled = enabled]
                /\ mappings' = [k \in DOMAIN mappings |->
                                   IF k \in DOMAIN held /\ held[k] = ref
                                   THEN [mappings[k] EXCEPT !.enabled = enabled]
                                   ELSE mappings[k]]
       ELSE UNCHANGED <<presets, mappings>>
    /\ calls' = <<>>
    /\ result' = Result("peer.setMappingEnabled", "void")
    /\ UNCHANGED <<mappingOrder, filters, states, previousLandmarks, previousTimestamp,
                   onParameterChange, nframes, held, peer, probe>>

\* the preset object the caller registers in both instances
SharedRefs == {"p1"}

NextTwoInstances ==
    \/ SetParameterCallback
    \/ \E ref \in SharedRefs : AddSharedMapping(ref)
    \/ \E ref \in SharedRefs : PeerAddMapping(ref)
    \/ \E id \in Ids, enabled \in BOOLEAN : PeerSetMappingEnabled(id, enabled)
    \/ \E id \in Ids, enabled \in BOOLEAN : SetMappingEnabled(id, enabled)
    \/ \E id \in Ids, updates \in Partials : UpdateMapping(id, updates)
    \/ \E frame \in Frames : Process(frame)
SpecTwoInstances == Init /\ [][NextTwoInstances]_vars

---------------------------------------------------------------------------
(* extractGestureValue on its own: the velocity gestures over every cache and dt *)

\* dt of a frame that is earlier than, at, or one 60 fps interval after the previous one
DeltaTimes == {0 - 16, 0, 16}

ExtractArgs ==
    [op : {"args"},
     landmarks : {PoseB, PoseC},
     type : {"velocity_x", "velocity_y"},
     handedness : Handednesses,
     deltaTime : DeltaTimes,
     cache : {EmptyMap, [h \in {"Right"} |-> PoseB], [h \in {"Left"} |-> PoseC],
              [h \in Handednesses |-> IF h = "Left" THEN PoseB ELSE PoseC]}]

InitExtract == Constructed /\ probe \in ExtractArgs

\* this.extractGestureValue(landmarks, input, handedness, deltaTime)
ExtractCall ==
    /\ probe.op = "args"
    /\ probe' = [op |-> "extractGestureValue", args |-> probe,
                 out |-> ExtractGestureValue(probe.landmarks,
                                             Input(probe.type, probe.handedness, None,
                                                   Zero, One, None),
                                             probe.handedness, probe.deltaTime, probe.cache)]
    /\ UNCHANGED instance

NextExtract == ExtractCall
SpecExtract == InitExtract /\ [][NextExtract]_vars

---------------------------------------------------------------------------
(* One OneEuroFilter on its own: filter() at a fixed interval and reset().   *)
(* The first two values after construction or reset() are free; from then on *)
(* a signal that has been constant goes on with the same value.              *)

\* <<minCutoff, beta, dCutoff>>
OneEuroParams ==
    {<<One, Zero, One>>, <<One, Rat(7, 1000), One>>, <<Rat(3, 2), Rat(1, 100), Int2Rat(2)>>}
Signal == {Zero, Rat(1, 4), One}
Intervals == {Rat(1, 60), Rat(1, 30)}
Starts == {Zero, One}

InitOneEuro ==
    /\ Constructed
    /\ \E p \in OneEuroParams, interval \in Intervals, start \in Starts :
         probe = [op |-> "new", filter |-> OneEuroFilter(p[1], p[2], p[3]),
                  interval |-> interval, start |-> start,
                  t |-> 0, n |-> 0, resets |-> 0, steady |-> TRUE,
                  value |-> Zero, out |-> Zero]

\* filter.filter(value, now), the t-th call, at now = start + t * interval; n counts the
\* calls since construction or reset(), steady tells that they all passed the same value
OneEuroFilterCall(value) ==
    /\ probe.n < MaxCalls
    /\ probe.n < 2 \/ (probe.steady /\ value = probe.value)
    /\ LET now == Add(probe.start, Mul(Int2Rat(probe.t), probe.interval))
           step == OneEuroFilterFilter(probe.filter, value, now)
       IN  probe' = [probe EXCEPT !.op = "filter", !.filter = step.filter, !.out = step.out,
                                  !.value = value, !.n = @ + 1, !.t = @ + 1,
                                  !.steady = (probe.n = 0 \/ (@ /\ value = probe.value))]
    /\ UNCHANGED instance

\* filter.reset()
OneEuroFilterResetCall ==
    /\ probe.n > 0
    /\ probe.resets < MaxResets
    /\ probe' = [probe EXCEPT !.op = "reset", !.filter = OneEuroFilterReset(probe.filter),
                              !.n = 0, !.resets = @ + 1, !.steady = TRUE]
    /\ UNCHANGED instance

NextOneEuro ==
    \/ \E value \in Signal : OneEuroFilterCall(value)
    \/ OneEuroFilterResetCall
SpecOneEuro == InitOneEuro /\ [][NextOneEuro]_vars

---------------------------------------------------------------------------
(* One MovingAverageFilter on its own: filter(), setWindowSize() and reset(). *)
(* inputs is the caller's record of the values passed to filter() since       *)
(* construction or the last reset().                                          *)

\* window sizes passed to the constructor and to setWindowSize()
Sizes == {Zero, One, Int2Rat(2), Int2Rat(3)}
Samples == {Zero, Half, One}

InitMovingAverage ==
    /\ Constructed
    /\ \E size \in Sizes :
         probe = [op |-> "new", filter |-> MovingAverageFilter(size), inputs |-> <<>>,
                  out |-> Zero]

MovingAverageFilterCall(value) ==
    /\ probe.op \in {"new", "filter", "setWindowSize", "reset"}
    /\ Len(probe.inputs) < MaxInputs
    /\ LET step == MovingAverageFilterFilter(probe.filter, value)
       IN  probe' = [probe EXCEPT !.op = "filter", !.filter = step.filter,
                                  !.inputs = Append(@, value), !.out = step.out]
    /\ UNCHANGED instance

MovingAverageSetWindowSizeCall(size) ==
    /\ probe.op \in {"new", "filter", "setWindowSize", "reset"}
    /\ probe' = [probe EXCEPT !.op = "setWindowSize",
                              !.filter = MovingAverageFilterSetWindowSize(@, size)]
    /\ UNCHANGED instance

MovingAverageResetCall ==
    /\ probe.op \in {"new", "filter", "setWindowSize", "reset"}
    /\ probe' = [probe EXCEPT !.op = "reset", !.filter = MovingAverageFilterReset(@),
                              !.inputs = <<>>]
    /\ UNCHANGED instance

NextMovingAverage ==
    \/ \E value \in Samples : MovingAverageFilterCall(value)
    \/ \E size \in Sizes : MovingAverageSetWindowSizeCall(size)
    \/ MovingAverageResetCall
SpecMovingAverage == InitMovingAverage /\ [][NextMovingAverage]_vars

---------------------------------------------------------------------------
(* applyMapping and applyCurve on their own *)

Curves == {"linear", "exponential", "logarithmic", "ease-in", "ease-out", "ease-in-out",
           "smooth-step"}

\* smoothed values below, inside and above the input ranges
MapperValues == {Rat(-1, 2), Zero, Rat(1, 4), Half, Rat(3, 4), One, Rat(3, 2)}
\* input ranges: the unit range, narrower ones, an empty one and a descending one
InputRanges == {<<Zero, One>>, <<Zero, Half>>, <<Rat(1, 4), Rat(3, 4)>>, <<Half, Half>>,
                <<One, Zero>>}
OutputRanges == {<<Zero, One>>, <<Rat(1, 10), One>>}

MapperArgs ==
    [op : {"args"}, value : MapperValues, inputRange : InputRanges,
     outputRange : OutputRanges, curve : Curves, invert : BOOLEAN]

InitMapper == Constructed /\ probe \in MapperArgs

\* the mapping the arguments describe
ProbeMapping(args) ==
    Mapping("a",
            Input("wrist_position_x", "any", None, args.inputRange[1], args.inputRange[2],
                  Some(args.curve)),
            Output("device", "parameter", args.outputRange[1], args.outputRange[2],
                   args.invert),
            Smoothing("none", None))

\* this.applyMapping(value, mapping): what it returns, and the normalized value it hands
\* to the curve on the way
ApplyMappingCall ==
    /\ probe.op = "args"
    /\ probe' = [op |-> "applyMapping", args |-> probe,
                 normalized |-> Normalize(probe.value, ProbeMapping(probe)),
                 out |-> applyMapping(probe.value, ProbeMapping(probe))]
    /\ UNCHANGED instance

\* this.applyCurve(value, curve) for a value of [0, 1]
ApplyCurveCall ==
    /\ probe.op = "args"
    /\ Le(Zero, probe.value) /\ Le(probe.value, One)
    /\ probe' = [op |-> "applyCurve", args |-> probe,
                 out |-> applyCurve(probe.value, probe.curve)]
    /\ UNCHANGED instance

NextMapper == ApplyMappingCall \/ ApplyCurveCall
SpecMapper == InitMapper /\ [][NextMapper]_vars

---------------------------------------------------------------------------
(* createFilter on its own, and the filter it built at work *)

\* smoothing parameters inside, at the edge of and outside their domains
Factors == {None, Some(Rat(-1, 2)), Some(Zero), Some(Half), Some(One), Some(Rat(3, 2))}
Alphas == {None, Some(Zero), Some(Rat(1, 200)), Some(Rat(3, 10)), Some(Int2Rat(2))}
WindowSizes == {None, Some(Int2Rat(-1)), Some(Zero), Some(One), Some(Int2Rat(3))}
MinCutoffs == {None, Some(Int2Rat(-1)), Some(Zero), Some(One)}
Betas == {None, Some(Int2Rat(-1)), Some(Zero), Some(Rat(7, 1000))}
DCutoffs == {None, Some(Zero), Some(One)}

FilterConfigs ==
    {[type |-> "none"]}
    \cup [type : {"low-pass"}, factor : Factors]
    \cup [type : {"exponential"}, alpha : Alphas]
    \cup [type : {"moving-average"}, windowSize : WindowSizes]
    \cup [type : {"one-euro"}, minCutoff : MinCutoffs, beta : Betas, dCutoff : DCutoffs]

InitFactory == Constructed /\ probe \in [op : {"config"}, config : FilterConfigs]

\* createFilter(config)
CreateFilterCall ==
    /\ probe.op = "config"
    /\ probe' = [op |-> "createFilter", config |-> probe.config,
                 filter |-> createFilter(probe.config), n |-> 0, out |-> Zero]
    /\ UNCHANGED instance

\* filter.filter(value, timestamp) on the filter built, one 60 fps frame after the other
BuiltFilterCall(value) ==
    /\ probe.op \in {"createFilter", "filter"}
    /\ probe.n < MaxFilterCalls
    /\ LET step == FilterApply(probe.filter, value, Rat(probe.n, 60))
       IN  probe' = [probe EXCEPT !.op = "filter", !.filter = step.filter,
                                  !.n = probe.n + 1, !.out = step.out]
    /\ UNCHANGED instance

NextFactory == CreateFilterCall \/ \E value \in {Zero, One} : BuiltFilterCall(value)
SpecFactory == InitFactory /\ [][NextFactory]_vars

---------------------------------------------------------------------------
(* The finger_curl and palm_facing gestures on their own *)

\* segment vectors: none, and a quarter of the frame along each axis in either direction
Segments == {<<Zero, Zero>>, <<Rat(1, 4), Zero>>, <<Rat(-1, 4), Zero>>, <<Zero, Rat(1, 4)>>,
             <<Zero, Rat(-1, 4)>>}

\* a hand whose thumb, index and middle finger have the base knuckle at the centre of the
\* frame, the mid joint at v1 from it and the tip at v2 from the mid joint
CurlPose(v1, v2) ==
    LET mcp == Point(Half, Half, Zero)
        pip == Point(Add(Half, v1[1]), Add(Half, v1[2]), Zero)
        tip == Point(Add(pip.x, v2[1]), Add(pip.y, v2[2]), Zero)
    IN  [i \in 1..NumLandmarks |->
            CASE i \in {THUMB_CMC + 1, INDEX_MCP + 1, MIDDLE_MCP + 1} -> mcp
              [] i \in {THUMB_MCP + 1, INDEX_PIP + 1, MIDDLE_PIP + 1} -> pip
              [] i \in {THUMB_TIP + 1, INDEX_TIP + 1, MIDDLE_TIP + 1} -> tip
              [] OTHER -> Point(Half, Half, Zero)]

\* input.finger: absent, a fingertip index, or an index that is no fingertip
CurlFingers == {None, Some(THUMB_TIP), Some(INDEX_TIP), Some(MIDDLE_TIP), Some(WRIST)}

\* places of the wrist and of the two base knuckles palm_facing reads: corners and centre
PalmPoints == {Point(Zero, Zero, Zero), Point(Half, Half, Zero), Point(One, Zero, Zero),
               Point(One, One, Zero)}

GestureArgs ==
    [op : {"curl"}, v1 : Segments, v2 : Segments, finger : CurlFingers]
    \cup [op : {"palm"}, wrist : PalmPoints, middleMcp : PalmPoints, indexMcp : PalmPoints]

InitGesture == Constructed /\ probe \in GestureArgs

\* extractGestureValue(landmarks, {type: 'finger_curl', finger}, handedness, deltaTime)
FingerCurlCall ==
    /\ probe.op = "curl"
    /\ probe' = [op |-> "finger_curl", args |-> probe,
                 out |-> ExtractGestureValue(CurlPose(probe.v1, probe.v2),
                                             Input("finger_curl", "any", probe.finger, Zero, One,
                                                   None),
                                             "Right", 16, EmptyMap)]
    /\ UNCHANGED instance

\* extractGestureValue(landmarks, {type: 'palm_facing'}, handedness, deltaTime)
PalmFacingCall ==
    /\ probe.op = "palm"
    /\ probe' = [op |-> "palm_facing", args |-> probe,
                 out |-> ExtractGestureValue(
                             MkPose(probe.wrist, Point(Half, Half, Zero), Point(Half, Half, Zero),
                                    probe.indexMcp, probe.middleMcp),
                             Input("palm_facing", "any", None, Zero, One, None),
                             "Right", 16, EmptyMap)]
    /\ UNCHANGED instance

NextGesture == FingerCurlCall \/ PalmFacingCall
SpecGesture == InitGesture /\ [][NextGesture]_vars

---------------------------------------------------------------------------
(* Properties *)

\* the frame carries a hand for the selector `target`
HandPresent(hands, target) ==
    IF target = "any" THEN Len(hands) > 0
    ELSE \E i \in 1..Len(hands) : hands[i].handedness = target

\* the positions of the invocations made for mapping `id`
CallsFor(log, id) == {i \in 1..Len(log) : log[i].id = id}

TypeOK ==
    /\ DOMAIN mappings \subseteq Ids
    /\ result.outcome \in Outcomes
    /\ nframes \in 0..MaxFrames
    /\ previousTimestamp \in Timestamps
    /\ DOMAIN previousLandmarks \subseteq Handednesses

\* C1: the ids that hold a mapping spec, a filter instance and a state record are the
\* same set, whatever calls were made.
C1_RegistryKeysAgree ==
    /\ DOMAIN mappings = DOMAIN filters
    /\ DOMAIN filters = DOMAIN states
    /\ {mappingOrder[i] : i \in 1..Len(mappingOrder)} = DOMAIN mappings
    /\ Len(mappingOrder) = Cardinality(DOMAIN mappings)

\* "a" was unregistered after frames were processed; "b" keeps its processed record
C1_Witness ==
    /\ result.op = "removeMapping"
    /\ DOMAIN states = {"b"}
    /\ states["b"] # ZeroState
    /\ nframes > 0

\* C2: in a process(frame) call the callback is invoked exactly once for every registered
\* mapping that is enabled and whose hand is in the frame, with that mapping's deviceId,
\* parameterName and the output value just computed, and for no other mapping.
C2_EmitsOncePerMatch ==
    [][\A frame \in Frames :
        Process(frame) =>
            LET matched == {id \in DOMAIN mappings :
                              /\ mappings[id].enabled
                              /\ HandPresent(frame.hands, mappings[id].input.hand)}
            IN  IF onParameterChange
                THEN /\ \A id \in matched : Cardinality(CallsFor(calls', id)) = 1
                     /\ \A i \in 1..Len(calls') :
                          /\ calls'[i].id \in matched
                          /\ calls'[i].deviceId = mappings[calls'[i].id].output.deviceId
                          /\ calls'[i].parameterName = mappings[calls'[i].id].output.parameterName
                          /\ calls'[i].value = states'[calls'[i].id].outputValue
                ELSE calls' = <<>>]_vars

\* a frame was processed with two mappings registered and the callback ran for one of them
C2_Witness ==
    /\ result = Result("process", "states")
    /\ Cardinality(DOMAIN mappings) = 2
    /\ Len(calls) = 1

\* C3: every value handed to the callback lies in the emitting mapping's [outMin, outMax].
C3_OutputWithinRange ==
    \A i \in 1..Len(calls) :
        LET range == mappings[calls[i].id].output.outputRange
        IN  Le(range[1], calls[i].value) /\ Le(calls[i].value, range[2])

\* C4: a frame without the hand of an enabled mapping leaves that mapping's state record and
\* filter as they were, invokes no callback for it, and process() raises no error.
C4_AbsentHandSkips ==
    [][\A frame \in Frames :
        Process(frame) =>
            \A id \in DOMAIN mappings :
                (mappings[id].enabled /\ ~HandPresent(frame.hands, mappings[id].input.hand))
                => /\ states'[id] = states[id]
                   /\ filters'[id] = filters[id]
                   /\ CallsFor(calls', id) = {}
                   /\ result'.outcome # "TypeError"]_vars

\* the frame had a first hand ("b" was served) but no left hand: "a", enabled, was skipped
C4_Witness ==
    /\ result = Result("process", "states")
    /\ "a" \in DOMAIN mappings
    /\ mappings["a"].enabled
    /\ mappings["a"].input.hand = "Left"
    /\ Len(calls) = 1
    /\ calls[1].id = "b"

\* C5: a process(frame) call neither invokes the callback for a disabled mapping nor
\* touches its state record, which stays in the registry.
C5_DisabledFrozen ==
    [][result'.op = "process" =>
        \A id \in DOMAIN mappings :
            ~mappings[id].enabled
            => /\ id \in DOMAIN states'
               /\ states'[id] = states[id]
               /\ CallsFor(calls', id) = {}]_vars

\* a frame went by (another mapping was served) while a disabled mapping kept the record
\* of an earlier frame
C5_Witness ==
    /\ result.op = "process"
    /\ Len(calls) >= 1
    /\ \E id \in DOMAIN mappings :
        /\ ~mappings[id].enabled
        /\ states[id] # ZeroState
        /\ states[id].lastUpdate # previousTimestamp

\* C6: setMappingEnabled changes the enabled flag of that mapping and nothing else, and a
\* processed frame is smoothed from the value the low-pass filter held before the frame,
\* so a mapping enabled again resumes from the filter state it had.
C6_ToggleKeepsFilter ==
    [][/\ \A id \in Ids, enabled \in BOOLEAN :
            SetMappingEnabled(id, enabled) =>
                /\ filters' = filters
                /\ states' = states
                /\ mappingOrder' = mappingOrder
                /\ DOMAIN mappings' = DOMAIN mappings
                /\ \A k \in DOMAIN mappings :
                     mappings'[k] = IF k = id THEN [mappings[k] EXCEPT !.enabled = enabled]
                                    ELSE mappings[k]
       /\ result'.op = "process" =>
            \A id \in DOMAIN mappings :
                (/\ states'[id] # states[id]
                 /\ filters[id].type = "low-pass"
                 /\ filters[id].value # None)
                => states'[id].smoothedValue =
                       Add(Mul(filters[id].value[1], filters[id].param),
                           Mul(states'[id].rawValue, Sub(One, filters[id].param)))]_vars

\* setMappingEnabled has acted and a disabled mapping still holds its filter history
C6_Witness ==
    /\ result.op = "setMappingEnabled"
    /\ \E id \in DOMAIN mappings :
        /\ ~mappings[id].enabled
        /\ filters[id].value # None
        /\ states[id] # ZeroState

\* C7: updateMapping replaces the filter by a fresh one exactly when the smoothing spec
\* after the update differs from the one before; otherwise the filter is kept.
C7_FilterRebuiltIffSmoothingDiffers ==
    [][\A id \in Ids, updates \in Partials :
        (UpdateMapping(id, updates) /\ id \in DOMAIN mappings) =>
            IF mappings'[id].smoothing # mappings[id].smoothing
            THEN filters'[id] = createFilterForMapping(mappings'[id].smoothing)
            ELSE filters'[id] = filters[id]]_vars

\* C8: process(frame) never raises an error, whatever the frame.
C8_ProcessNeverThrows == result.outcome # "TypeError"

\* C9: addMapping with an id that is already registered fails explicitly and leaves the
\* registry as it was.
C9_DuplicateRejected ==
    [][\A ref \in CoreRefs :
        (AddMapping(ref) /\ Presets[ref].id \in DOMAIN mappings) =>
            /\ result'.outcome = "TypeError"
            /\ UNCHANGED registry]_vars

\* C10 as claimed: updateMapping and getState with an unregistered id end in a failure the
\* caller can tell from a successful call, and change nothing in the registry.
C10_UnknownIdRejected ==
    [][\A id \in Ids :
        id \notin DOMAIN mappings =>
            /\ \A updates \in Partials :
                 UpdateMapping(id, updates) =>
                     result'.outcome \notin {"void", "state"} /\ UNCHANGED registry
            /\ GetState(id) =>
                 result'.outcome \notin {"void", "state"} /\ UNCHANGED registry]_vars

\* C10 as amended: updateMapping with an unregistered id returns as a successful update
\* does, getState returns undefined (and a state record for a registered id); both change
\* nothing in the orchestrator.
C10_UnknownIdIgnored ==
    [][\A id \in Ids :
        /\ id \notin DOMAIN mappings =>
            /\ \A updates \in Partials :
                 UpdateMapping(id, updates) =>
                     /\ result'.outcome = "void"
                     /\ UNCHANGED <<registry, previousLandmarks, previousTimestamp>>
            /\ GetState(id) =>
                 /\ result'.outcome = "undefined"
                 /\ UNCHANGED <<registry, previousLandmarks, previousTimestamp>>
        /\ (id \in DOMAIN mappings /\ GetState(id)) => result'.outcome = "state"]_vars

\* updateMapping was called while nothing was registered
C10_Witness ==
    /\ result = Result("updateMapping", "void")
    /\ mappings = EmptyMap
    /\ nframes > 0

\* C11: reset() leaves every registered mapping with a filter as it is when constructed
\* for the mapping's smoothing, an all-zero state record, an empty landmark cache and a
\* previous timestamp of 0; the registered ids, their order, specs and enabled flags stay.
C11_ResetClears ==
    [][Reset =>
        /\ DOMAIN filters' = DOMAIN mappings
        /\ DOMAIN states' = DOMAIN mappings
        /\ \A id \in DOMAIN mappings :
             /\ filters'[id] = createFilterForMapping(mappings[id].smoothing)
             /\ filters'[id].value = None
             /\ states'[id] = ZeroState
        /\ previousLandmarks' = EmptyMap
        /\ previousTimestamp' = 0
        /\ mappings' = mappings
        /\ mappingOrder' = mappingOrder]_vars

\* reset() has run after frames were processed, with two mappings registered, one disabled
C11_Witness ==
    /\ result.op = "reset"
    /\ nframes > 0
    /\ Cardinality(DOMAIN mappings) = 2
    /\ \E id \in DOMAIN mappings : ~mappings[id].enabled
    /\ \A id \in DOMAIN mappings : states[id] = ZeroState /\ filters[id].value = None

\* the hand of the frame a mapping with selector `target` is served from
HandFor(hands, target) ==
    hands[CHOOSE i \in 1..Len(hands) :
            /\ target = "any" \/ hands[i].handedness = target
            /\ \A j \in 1..(i - 1) : ~(target = "any" \/ hands[j].handedness = target)]

\* |current wrist coordinate - cached wrist coordinate| / dt, for velocity_x or velocity_y
FiniteDifference(type, current, cached, dt) ==
    IF type = "velocity_x"
    THEN MathAbs(Div(Sub(current[WRIST + 1].x, cached[WRIST + 1].x), Int2Rat(dt)))
    ELSE MathAbs(Div(Sub(current[WRIST + 1].y, cached[WRIST + 1].y), Int2Rat(dt)))

\* C12: every enabled velocity mapping served in a frame takes its finite difference
\* against the snapshot of its hand cached when the frame arrived (the previous frame's),
\* whatever its place in the registry and whatever other mappings use the same hand.
C12_VelocityAgainstPreviousFrame ==
    [][\A frame \in VelocityFrames :
        Process(frame) =>
            \A id \in DOMAIN mappings :
                (/\ mappings[id].enabled
                 /\ mappings[id].input.type \in {"velocity_x", "velocity_y"}
                 /\ HandPresent(frame.hands, mappings[id].input.hand)
                 /\ HandFor(frame.hands, mappings[id].input.hand).handedness
                        \in DOMAIN previousLandmarks
                 /\ frame.timestamp # previousTimestamp)
                => LET hand == HandFor(frame.hands, mappings[id].input.hand)
                   IN  states'[id].rawValue =
                           FiniteDifference(mappings[id].input.type, hand.landmarks,
                                            previousLandmarks[hand.handedness],
                                            frame.timestamp - previousTimestamp)]_vars

\* C13: a velocity gesture is exactly 0 when no snapshot is cached for the hand's
\* handedness or dt <= 0, and otherwise |current wrist - cached wrist| / dt.
C13_VelocityGuard ==
    probe.op = "extractGestureValue" =>
        LET a == probe.args
        IN  IF a.handedness \notin DOMAIN a.cache \/ a.deltaTime <= 0
            THEN probe.out = Value(Zero)
            ELSE probe.out = Value(FiniteDifference(a.type, a.landmarks,
                                                    a.cache[a.handedness], a.deltaTime))

\* C14: registering, updating, toggling or unregistering one mapping leaves the filter and
\* the state record of every other mapping as they were, and in a processed frame each
\* mapping's filter advances from its own previous state and its own raw value only; this
\* holds for mappings with the same gesture type and hand.
C14_FiltersPrivate ==
    [][/\ \A id \in Ids :
            (\/ RemoveMapping(id)
             \/ \E updates \in Partials : UpdateMapping(id, updates)
             \/ \E enabled \in BOOLEAN : SetMappingEnabled(id, enabled)
             \/ \E ref \in VelocityRefs : Presets[ref].id = id /\ AddMapping(ref))
            => \A other \in DOMAIN mappings \ {id} :
                   filters'[other] = filters[other] /\ states'[other] = states[other]
       /\ result'.op = "process" =>
            \A id \in DOMAIN mappings :
                LET step == FilterApply(filters[id], states'[id].rawValue,
                                       Rat(previousTimestamp', 1000))
                IN  \/ filters'[id] = filters[id] /\ states'[id] = states[id]
                    \/ filters'[id] = step.filter /\ states'[id].smoothedValue = step.out]_vars

\* two mappings with the same gesture type and hand were served by the same frames and
\* their filters hold different values
C14_Witness ==
    /\ result.op = "process"
    /\ DOMAIN mappings = {"a", "b"}
    /\ mappings["a"].input.type = mappings["b"].input.type
    /\ mappings["a"].input.hand = mappings["b"].input.hand
    /\ mappings["a"].smoothing # mappings["b"].smoothing
    /\ filters["a"].value # None
    /\ filters["b"].value # None
    /\ filters["a"].value # filters["b"].value

\* the specs, with their enabled flags, of the mappings the second instance holds
PeerSpecs == [id \in DOMAIN peer.mappings |-> presets[peer.mappings[id]]]

\* C15: an operation on one GestureMapper instance changes nothing in another instance:
\* a call on the second instance leaves the first one's specs, enabled flags, filters and
\* state records as they were, and a call on the first leaves the second one's.
C15_InstancesIsolated ==
    [][IF result'.op \in {"peer.addMapping", "peer.setMappingEnabled"}
       THEN UNCHANGED <<registry, previousLandmarks, previousTimestamp>>
       ELSE peer' = peer /\ PeerSpecs' = PeerSpecs]_vars

\* C16: the first filter() call of a OneEuroFilter after construction, and the first after
\* reset(), returns the value it was given.
C16_FirstCallReturnsInput ==
    (probe.op = "filter" /\ probe.n = 1) => probe.out = probe.value

\* the first call after a reset() that followed two calls 1/30 s apart
C16_Witness ==
    /\ probe.op = "filter"
    /\ probe.n = 1
    /\ probe.resets = 1
    /\ probe.t = 3
    /\ probe.filter.beta # Zero
    /\ probe.value = One
    /\ probe.out = One
    /\ probe.filter.dxFilter.alpha # Alpha(probe.filter.dCutoff, FrameDt)

\* C17: while a OneEuroFilter has been fed one value v at a fixed positive interval since
\* construction or reset(), every call returns v, so the 30th and later ones do; the
\* derivative it keeps is 0 from the second call on.
C17_ConstantIsFixedPoint ==
    (probe.op = "filter" /\ probe.steady) =>
        /\ probe.out = probe.value
        /\ probe.n >= 2 => probe.filter.dxFilter.y = Some(Zero)

\* the 30th call of a constant non-zero signal into a filter with beta > 0
C17_Witness ==
    /\ probe.op = "filter"
    /\ probe.steady
    /\ probe.n = 30
    /\ probe.value = Rat(1, 4)
    /\ probe.out = Rat(1, 4)
    /\ probe.filter.beta # Zero

\* C18: with inMin # inMax and any curve, applyMapping sends a smoothed value of inMin to
\* outMin and one of inMax to outMax when invert is false, and inMin to outMax and inMax
\* to outMin when invert is true.
C18_InvertLaw ==
    (probe.op = "applyMapping" /\ probe.args.inputRange[1] # probe.args.inputRange[2]) =>
        LET a == probe.args
            atMin == IF a.invert THEN a.outputRange[2] ELSE a.outputRange[1]
            atMax == IF a.invert THEN a.outputRange[1] ELSE a.outputRange[2]
        IN  /\ a.value = a.inputRange[1] => probe.out = atMin
            /\ a.value = a.inputRange[2] => probe.out = atMax

\* an inverted logarithmic mapping with outMin # 0 was given its inMin and returned outMax
C18_Witness ==
    /\ probe.op = "applyMapping"
    /\ probe.args.invert
    /\ probe.args.curve = "logarithmic"
    /\ probe.args.inputRange = <<Rat(1, 4), Rat(3, 4)>>
    /\ probe.args.outputRange = <<Rat(1, 10), One>>
    /\ probe.args.value = Rat(1, 4)
    /\ probe.out = One

\* C19: every curve maps 0 to 0 and 1 to 1; smooth-step and ease-in-out map 1/2 to 1/2;
\* smooth-step is non-decreasing over [0, 1].
C19_CurveLaws ==
    probe.op = "applyCurve" =>
        LET a == probe.args
        IN  /\ a.value = Zero => probe.out = Zero
            /\ a.value = One => probe.out = One
            /\ (a.value = Half /\ a.curve \in {"smooth-step", "ease-in-out"})
               => probe.out = Half
            /\ a.curve = "smooth-step" =>
                 \A u \in MapperValues :
                     (Le(Zero, u) /\ Le(u, a.value)) => Le(applyCurve(u, a.curve), probe.out)

\* ease-in-out was applied to 1/2, the value at which its two branches meet
C19_Witness ==
    /\ probe.op = "applyCurve"
    /\ probe.args.curve = "ease-in-out"
    /\ probe.args.value = Half
    /\ probe.out = Half

\* C20: a smoothed value below the input range is normalized to exactly 0 and one above
\* it to exactly 1 (for a descending range, outside it: to 0 or 1), so the curve never
\* sees a value beyond [0, 1].
C20_NormalizeClamps ==
    probe.op = "applyMapping" =>
        LET a == probe.args
            inMin == a.inputRange[1]
            inMax == a.inputRange[2]
        IN  /\ (Le(inMin, inMax) /\ Lt(a.value, inMin)) => probe.normalized = Zero
            /\ (Le(inMin, inMax) /\ Lt(inMax, a.value)) => probe.normalized = One
            /\ (Lt(a.value, MathMin(inMin, inMax)) \/ Lt(MathMax(inMin, inMax), a.value))
               => probe.normalized \in {Zero, One}

\* a value above a narrow input range was normalized to 1 and mapped to outMax
C20_Witness ==
    /\ probe.op = "applyMapping"
    /\ probe.args.inputRange = <<Zero, Half>>
    /\ probe.args.value = Rat(3, 2)
    /\ probe.args.curve = "exponential"
    /\ ~probe.args.invert
    /\ probe.normalized = One
    /\ probe.out = probe.args.outputRange[2]

\* the smoothing parameter(s) a filter instance works with lie in the domain of its type
InDomain(f) ==
    CASE f.type = "low-pass" -> Le(Zero, f.param) /\ Le(f.param, One)
      [] f.type = "exponential" -> Le(MinAlpha, f.param) /\ Le(f.param, One)
      [] f.type = "moving-average" -> Le(One, f.size)
      [] f.type = "one-euro" -> Lt(Zero, f.minCutoff) /\ Le(Zero, f.beta) /\ Lt(Zero, f.dCutoff)
      [] OTHER -> TRUE

\* C21: the filter createFilter builds holds parameters clamped into their domains
\* (low-pass factor in [0, 1], exponential alpha in [0.01, 1], window size >= 1, one-euro
\* minCutoff > 0, beta >= 0, dCutoff > 0), at construction and at every filter() call.
C21_ParametersClamped ==
    probe.op \in {"createFilter", "filter"} => InDomain(probe.filter)

\* C22: finger_curl is 0 for a straight finger (both segments non-zero and pointing the
\* same way), 1 for a fully curled one (pointing opposite ways), and 0 when either segment
\* has zero magnitude.
C22_FingerCurl ==
    probe.op = "finger_curl" =>
        LET v1 == probe.args.v1
            v2 == probe.args.v2
            none == <<Zero, Zero>>
            opposite == <<Sub(Zero, v1[1]), Sub(Zero, v1[2])>>
        IN  /\ probe.out.ok
            /\ (v1 = none \/ v2 = none) => probe.out.v = Zero
            /\ (v1 # none /\ v2 = v1) => probe.out.v = Zero
            /\ (v1 # none /\ v2 = opposite) => probe.out.v = One

\* C23: palm_facing is 0 or 1 for every landmark set, also when the wrist and the middle
\* and index base knuckles are collinear or coincide.
C23_PalmFacingBinary ==
    probe.op = "palm_facing" => (probe.out.ok /\ probe.out.v \in {Zero, One})

\* C24: the second filter() call of a OneEuroFilter smooths the derivative from 0: the
\* derivative it keeps is alpha(dCutoff, dt) * dx, not dx, and the cutoff of that call is
\* minCutoff + beta * |that smoothed derivative|.
C24_DerivativeStartsAtZero ==
    [][(probe.op = "filter" /\ probe.n = 1 /\ probe'.op = "filter" /\ probe'.n = 2) =>
        LET f == probe'.filter
            dt == probe.interval
            dx == Div(Sub(probe'.value, probe.value), dt)
            smoothedDx == Mul(Alpha(f.dCutoff, dt), dx)
            cutoff == Add(f.minCutoff, Mul(f.beta, MathAbs(smoothedDx)))
        IN  /\ f.dxFilter.y = Some(smoothedDx)
            /\ f.xFilter.alpha = Alpha(cutoff, dt)]_vars

\* the sum of a sequence of numbers, and its last m elements
RECURSIVE SumOf(_)
SumOf(seq) == IF seq = <<>> THEN Zero ELSE Add(Head(seq), SumOf(Tail(seq)))
LastOf(seq, m) == SubSeq(seq, Len(seq) - m + 1, Len(seq))

\* C25: after any sequence of filter(), setWindowSize() and reset() calls on a
\* moving-average filter of window size n >= 1, the queue holds at most n values, the
\* running sum is the sum of the queued values, and a filter() call returns the mean of the
\* last min(k, n) inputs, k counting the inputs since construction or the last reset().
C25_MovingAverage ==
    probe.op \in {"new", "filter", "setWindowSize", "reset"} =>
        LET f == probe.filter
            k == Len(probe.inputs)
            m == IF Lt(f.size, Int2Rat(k)) THEN f.size.n ELSE k
        IN  /\ Le(Int2Rat(Len(f.window)), f.size)
            /\ f.sum = SumOf(f.window)
            /\ probe.op = "filter" => probe.out = Div(SumOf(LastOf(probe.inputs, m)), Int2Rat(m))

\* the hands of a frame that a selector names: all of them for "any"
Candidates(hands, target) ==
    {i \in 1..Len(hands) : target = "any" \/ hands[i].handedness = target}

\* C26: a Left or Right mapping is processed against the observed hand of exactly that
\* handedness, and skipped when there is none although another hand is present; an "any"
\* mapping is processed against the first hand of the list; the landmarks are cached under
\* the handedness of the hand resolved, and under no other.
C26_HandSelection ==
    [][\A frame \in Frames :
        Process(frame) =>
            LET hands == frame.hands
                served == {id \in DOMAIN mappings :
                             /\ mappings[id].enabled
                             /\ Candidates(hands, mappings[id].input.hand) # {}}
                resolved(id) ==
                    LET c == Candidates(hands, mappings[id].input.hand)
                    IN  hands[CHOOSE i \in c : \A j \in c : i <= j]
            IN  /\ \A id \in served :
                     LET hand == resolved(id)
                     IN  /\ mappings[id].input.hand \in Handednesses
                              => hand.handedness = mappings[id].input.hand
                         /\ mappings[id].input.hand = "any" => hand = hands[1]
                         /\ states'[id].rawValue =
                                ExtractGestureValue(hand.landmarks, mappings[id].input,
                                                    hand.handedness, 0, EmptyMap).v
                         /\ states'[id].lastUpdate = frame.timestamp
                         /\ hand.handedness \in DOMAIN previousLandmarks'
                         /\ previousLandmarks'[hand.handedness] = hand.landmarks
                /\ \A id \in DOMAIN mappings \ served :
                     states'[id] = states[id] /\ CallsFor(calls', id) = {}
                /\ \A h \in Handednesses :
                     (\A id \in served : resolved(id).handedness # h)
                     => /\ h \in DOMAIN previousLandmarks' <=> h \in DOMAIN previousLandmarks
                        /\ h \in DOMAIN previousLandmarks
                             => previousLandmarks'[h] = previousLandmarks[h]]_vars

\* a frame listing the right hand before the left: the Left mapping "a" read the second
\* hand (pinch 0, the first one's is 1/2), the "any" mapping "b" the first (wrist y 1/2),
\* and both snapshots are cached
C26_Witness ==
    /\ result = Result("process", "states")
    /\ DOMAIN mappings = {"a", "b"}
    /\ mappings["a"].input.hand = "Left" /\ mappings["a"].input.type = "pinch_distance"
    /\ mappings["b"].input.hand = "any" /\ mappings["b"].input.type = "wrist_position_y"
    /\ Len(calls) = 2
    /\ states["a"].rawValue = Zero
    /\ states["b"].rawValue = Half
    /\ DOMAIN previousLandmarks = {"Left", "Right"}
    /\ previousLandmarks["Left"] = PoseA
    /\ previousLandmarks["Right"] = PoseB

\* C27: every entry of the registry is stored under the id field of its spec, in the
\* mappings, filters and states maps alike, after any sequence of addMapping and
\* updateMapping calls, also when the partial carries an id other than the key.
C27_KeyIsId ==
    /\ DOMAIN filters = DOMAIN mappings
    /\ DOMAIN states = DOMAIN mappings
    /\ \A key \in DOMAIN mappings : mappings[key].id = key

\* C28: within one process(frame) call no mapping id has its loop body run more than
\* once, and only ids registered when the call started have it run, also when the callback
\* calls addMapping, removeMapping or updateMapping during the frame.
C28_OncePerFrame ==
    probe.op \in {"process", "processed"} =>
        /\ \A i, j \in 1..Len(probe.processed) :
              probe.processed[i] = probe.processed[j] => i = j
        /\ \A i \in 1..Len(probe.processed) : probe.processed[i] \in probe.atStart

\* C29: whenever a velocity mapping computes a raw value past its guard, the dt it divides
\* by is the time elapsed since the cached landmarks it differences against were stored,
\* also when the hand was absent, or the mapping disabled, in frames in between.
C29_DtIsSnapshotAge ==
    [][\A frame \in TimedFrames :
        TimedProcess(frame) =>
            \A id \in DOMAIN mappings :
                (/\ mappings[id].enabled
                 /\ mappings[id].input.type \in {"velocity_x", "velocity_y"}
                 /\ HandPresent(frame.hands, mappings[id].input.hand)
                 /\ HandFor(frame.hands, mappings[id].input.hand).handedness
                        \in DOMAIN previousLandmarks
                 /\ frame.timestamp # previousTimestamp)
                => LET hand == HandFor(frame.hands, mappings[id].input.hand)
                       age == frame.timestamp - probe.at[hand.handedness]
                   IN  /\ frame.timestamp - previousTimestamp = age
                       /\ states'[id].rawValue =
                              FiniteDifference(mappings[id].input.type, hand.landmarks,
                                               previousLandmarks[hand.handedness], age)]_vars

\* C30: after reset(), frame after frame, the orchestrator makes the callback invocations
\* and holds the state records of an orchestrator just constructed in which the same
\* specs, with the same enabled flags, were registered in the same order.
C30_ResetIsFresh ==
    (probe.op = "fresh" /\ probe.live) => (calls = probe.calls /\ states = probe.states)

====
